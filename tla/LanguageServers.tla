-------------------------- MODULE LanguageServers ---------------------------
(***************************************************************************)
(* packages/lsp: the files of one language server, and the calls about     *)
(* them, which overlap: tools that only read run in parallel, and the      *)
(* check after an edit goes on when the loop has stopped waiting for it.   *)
(* A text of a file is a number: each edit writes the next one.  The       *)
(* server, outside of src/, handles what it is sent in order, may exit at  *)
(* any time, and publishes or does not.                                    *)
(***************************************************************************)
EXTENDS Naturals, Sequences, FiniteSets

CONSTANTS
  Files,       \* files that the server handles, by serverFor
  Calls,       \* calls that may be in progress together
  Texts,       \* bound: the texts of a file are 1..Texts
  MaxClients,  \* bound: clients made; the last neither fails to start nor is stopped
  Faulty       \* the texts in which the server finds an error

ASSUME LanguageServersAssumption ==
  /\ Files # {}
  /\ Texts \in Nat \ {0} /\ MaxClients \in Nat \ {0} /\ Faulty \subseteq 1..Texts

NoText == 0

VARIABLES
  disk,         \* file -> its text
  clients,      \* every LspClient made, with its server
  registered,   \* LspManager.clients: the number of the client there, 0 without
  unsupported,  \* LspManager.unsupported
  ended,        \* LspManager.stop has run
  calls         \* call -> where it is

vars == <<disk, clients, registered, unsupported, ended, calls>>

(* A client's connection: its server starts, answers, has exited, or was   *)
(* stopped.  open is the client's record of the documents; told, what the  *)
(* server was sent of them; diagnostics, the text in which the latest were *)
(* found, or NoText when there are none.                                   *)
Document == [version : Nat, text : 0..Texts]
Client ==
  [state : {"starting", "ready", "exited", "stopped"}, by : Files, pulls : BOOLEAN,
   open : [Files -> Document], told : [Files -> Document], diagnostics : [Files -> 0..Texts]]

NotOpen == [version |-> 0, text |-> NoText]
Nothing == [f \in Files |-> NotOpen]

NewClient(f) ==
  [state |-> "starting", by |-> f, pulls |-> FALSE, open |-> Nothing, told |-> Nothing,
   diagnostics |-> [g \in Files |-> NoText]]

(* query stands for hover, references, symbols, rename and the like; check *)
(* is problemsIn for one file: touch, then diagnostics.  begun is the text *)
(* on disk when the call began, text the one it read, asked the server's   *)
(* when the call's request reached it.                                     *)
Kinds == {"query", "diagnostics", "check"}
Steps == {"idle", "looking", "starting", "reading", "read", "asked", "watching"}
Call ==
  [kind : Kinds, step : Steps, file : Files, client : 0..MaxClients,
   begun : 0..Texts, text : 0..Texts, asked : 0..Texts]

At(k, step) == calls[k].step = step
Idle == [kind |-> "query", step |-> "idle", file |-> CHOOSE f \in Files : TRUE, client |-> 0,
         begun |-> NoText, text |-> NoText, asked |-> NoText]
Return(k) == calls' = [calls EXCEPT ![k] = Idle]

Init ==
  /\ disk = [f \in Files |-> 1]
  /\ clients = << >> /\ registered = 0
  /\ unsupported = {} /\ ended = FALSE
  /\ calls = [k \in Calls |-> Idle]

-----------------------------------------------------------------------------
(* The session edits files and calls. *)

Edit(f) ==
  /\ disk[f] < Texts
  /\ disk' = [disk EXCEPT ![f] = @ + 1]
  /\ UNCHANGED <<clients, registered, unsupported, ended, calls>>

(* clientFor gives up at once on a file that no server handles. *)
Begin(k, kind, f) ==
  /\ At(k, "idle") /\ ~ ended /\ f \notin unsupported
  /\ calls' = [calls EXCEPT ![k] = [kind |-> kind, step |-> "looking", file |-> f, client |-> 0,
                                    begun |-> disk[f], text |-> NoText, asked |-> NoText]]
  /\ UNCHANGED <<disk, clients, registered, unsupported, ended>>

(* LspManager.clientFor after serverFor.  Whoever finds a client joins its *)
(* start; a ready client, or one whose server has exited, is started.      *)
Joined(call, c, state) ==
  [call EXCEPT !.client = c, !.step = IF state = "starting" THEN "starting" ELSE "reading"]

Join(k) ==
  /\ At(k, "looking") /\ registered # 0
  /\ calls' = [calls EXCEPT ![k] = Joined(@, registered, clients[registered].state)]
  /\ UNCHANGED <<disk, clients, registered, unsupported, ended>>

(* Mutant: whether another call has made a client meanwhile is not asked.   *)
CreateAnyway(k) ==
  /\ At(k, "looking") /\ Len(clients) < MaxClients
  /\ clients' = Append(clients, NewClient(calls[k].file))
  /\ registered' = Len(clients')
  /\ calls' = [calls EXCEPT ![k] = Joined(@, registered', "starting")]
  /\ UNCHANGED <<disk, unsupported, ended>>

Create(k) ==
  /\ At(k, "looking") /\ registered = 0 /\ Len(clients) < MaxClients
  /\ clients' = Append(clients, NewClient(calls[k].file))
  /\ registered' = Len(clients')
  /\ calls' = [calls EXCEPT ![k] = Joined(@, registered', "starting")]
  /\ UNCHANGED <<disk, unsupported, ended>>

(* serverFor finds none: its binary is gone. *)
NotServed(k) ==
  /\ At(k, "looking")
  /\ unsupported' = unsupported \cup {calls[k].file}
  /\ Return(k)
  /\ UNCHANGED <<disk, clients, registered, ended>>

-----------------------------------------------------------------------------
(* LspClient.doStart, and the calls that wait for it: their continuations  *)
(* run before anything else does.                                          *)
Waiting(call, c) == call.step = "starting" /\ call.client = c

Started(c) ==
  /\ clients[c].state = "starting"
  /\ \E pulls \in BOOLEAN :
       clients' = [clients EXCEPT ![c].state = "ready", ![c].pulls = pulls]
  /\ calls' = [k \in Calls |->
       IF Waiting(calls[k], c) THEN [calls[k] EXCEPT !.step = "reading"] ELSE calls[k]]
  /\ UNCHANGED <<disk, registered, unsupported, ended>>

(* A call of a failed start returns nothing, but a check, whose touch it   *)
(* was, goes on to ask for diagnostics.                                    *)
Unserved(call, c) ==
  IF ~ Waiting(call, c) THEN call
  ELSE IF call.kind = "check" /\ call.file \notin unsupported'
    THEN [call EXCEPT !.kind = "diagnostics", !.step = "looking", !.client = 0]
    ELSE Idle

(* LspClient.stop.  "stopped" is told to stop: a server that ignores the   *)
(* SIGTERM gets no SIGKILL, since child.killed says that one was sent, and *)
(* lives on, unheard.                                                      *)
Abandon(c) ==
  /\ clients' = [clients EXCEPT ![c].state = "stopped", ![c].open = Nothing, ![c].told = Nothing]
  /\ calls' = [k \in Calls |-> Unserved(calls[k], c)]

(* initialize is refused, takes too long, or the process exits. *)
FailToStart(c) ==
  /\ clients[c].state = "starting" /\ Len(clients) < MaxClients
  /\ registered' = 0
  /\ unsupported' = unsupported \cup {clients[c].by}
  /\ Abandon(c)
  /\ UNCHANGED <<disk, ended>>

(* The server of a running client exits: nothing starts it again. *)
Exit(c) ==
  /\ clients[c].state = "ready"
  /\ clients' = [clients EXCEPT ![c].state = "exited", ![c].told = Nothing]
  /\ UNCHANGED <<disk, registered, unsupported, ended, calls>>

(* LspManager.stop, at the session's end. *)
Stop ==
  /\ ~ ended /\ ended' = TRUE
  /\ registered' = 0
  /\ IF registered = 0
       THEN unsupported' = {} /\ UNCHANGED <<clients, calls>>
       ELSE /\ Len(clients) < MaxClients
            /\ unsupported' = IF clients[registered].state = "starting"
                              THEN {clients[registered].by} ELSE {}
            /\ Abandon(registered)
  /\ UNCHANGED disk

-----------------------------------------------------------------------------
(* openOrUpdate: the file is read, and later the call goes on with what    *)
(* was read.                                                               *)
Read(k) ==
  /\ At(k, "reading")
  /\ \E text \in {disk[calls[k].file], NoText} :   \* NoText: it cannot be read
       calls' = [calls EXCEPT ![k].step = "read", ![k].text = text]
  /\ UNCHANGED <<disk, clients, registered, unsupported, ended>>

Connected(client) == client.state = "ready"

(* Mutant: a document that is open is left as it is. *)
UpdatedOnce(client, f, text) ==
  LET next == [version |-> 1, text |-> text]
  IN  IF text = NoText \/ client.open[f].version > 0 THEN client
      ELSE [client EXCEPT !.open[f] = next,
                          !.told[f] = IF Connected(client) THEN next ELSE @]

(* The document is opened, or changed if its text is another. *)
Updated(client, f, text) ==
  LET next == [version |-> client.open[f].version + 1, text |-> text]
  IN  IF text = NoText \/ client.open[f].text = text THEN client
      ELSE [client EXCEPT !.open[f] = next,
                          !.told[f] = IF Connected(client) THEN next ELSE @]

(* diagnosticsFor without a pulled answer: the errors that are there, or a *)
(* wait for some.                                                          *)
Watched(call, client) ==
  IF client.diagnostics[call.file] # NoText THEN Idle ELSE [call EXCEPT !.step = "watching"]

Continued(call, client) ==
  LET ask == [call EXCEPT !.step = "asked", !.asked = client.told[call.file].text]
  IN  CASE call.kind = "check" ->
             IF call.file \in unsupported THEN Idle
             ELSE [call EXCEPT !.kind = "diagnostics", !.step = "looking",
                               !.client = 0, !.text = NoText]
        [] call.kind = "query" -> IF Connected(client) THEN ask ELSE Idle
        [] OTHER -> IF Connected(client) /\ client.pulls THEN ask ELSE Watched(call, client)

Update(k) ==
  /\ At(k, "read")
  /\ LET call == calls[k]
         client == Updated(clients[call.client], call.file, call.text)
     IN  /\ clients' = [clients EXCEPT ![call.client] = client]
         /\ calls' = [calls EXCEPT ![k] = Continued(call, client)]
  /\ UNCHANGED <<disk, registered, unsupported, ended>>

-----------------------------------------------------------------------------
(* Requests, and diagnostics. *)

(* What the server finds in a text. *)
Found(text) == IF text \in Faulty THEN text ELSE NoText

(* The server answers, for a pull with the diagnostics of its text. *)
Answer(k) ==
  /\ At(k, "asked") /\ Connected(clients[calls[k].client])
  /\ clients' = IF calls[k].kind = "query" THEN clients
                ELSE [clients EXCEPT ![calls[k].client].diagnostics[calls[k].file] =
                        Found(calls[k].asked)]
  /\ Return(k)
  /\ UNCHANGED <<disk, registered, unsupported, ended>>

(* Mutant: no timer, so that only the end of a connection ends a request.  *)
NoAnswerAtEnd(k) ==
  /\ At(k, "asked") /\ ~ Connected(clients[calls[k].client])
  /\ calls' = [calls EXCEPT ![k] = IF @.kind = "query" THEN Idle
                                   ELSE Watched(@, clients[@.client])]
  /\ UNCHANGED <<disk, clients, registered, unsupported, ended>>

(* It answers with an error, too late, or not at all: the connection's end *)
(* rejects what is pending.                                                *)
NoAnswer(k) ==
  /\ At(k, "asked")
  /\ calls' = [calls EXCEPT ![k] = IF @.kind = "query" THEN Idle
                                   ELSE Watched(@, clients[@.client])]
  /\ UNCHANGED <<disk, clients, registered, unsupported, ended>>

(* publishDiagnostics for an open document: what is found in its text, or  *)
(* nothing as long as it is not looked at.                                 *)
Publish(c, f) ==
  /\ Connected(clients[c]) /\ clients[c].told[f].version > 0
  /\ \E found \in {NoText, Found(clients[c].told[f].text)} :
       clients' = [clients EXCEPT ![c].diagnostics[f] = found]
  /\ UNCHANGED <<disk, registered, unsupported, ended, calls>>

(* The loop of diagnosticsFor sees errors, or its time is up. *)
Watch(k) ==
  /\ At(k, "watching")
  /\ Return(k)
  /\ UNCHANGED <<disk, clients, registered, unsupported, ended>>

-----------------------------------------------------------------------------
(* What a call does of itself. *)
Proceed(k) ==
  \/ Join(k) \/ Create(k) \/ NotServed(k) \/ Read(k) \/ Update(k)
  \/ NoAnswer(k) \/ Watch(k)

Next ==
  \/ \E f \in Files : Edit(f)
  \/ \E k \in Calls, kind \in Kinds, f \in Files : Begin(k, kind, f)
  \/ \E k \in Calls : Proceed(k) \/ Answer(k)
  \/ \E c \in DOMAIN clients : Started(c) \/ FailToStart(c) \/ Exit(c)
  \/ \E c \in DOMAIN clients, f \in Files : Publish(c, f)
  \/ Stop

Spec == Init /\ [][Next]_vars

(* A file is read, a timer ends each wait of a call, and initialize is     *)
(* answered or times out.                                                  *)
Fairness ==
  /\ \A k \in Calls : WF_vars(Proceed(k))
  /\ \A c \in 1..MaxClients : WF_vars(c \in DOMAIN clients /\ (Started(c) \/ FailToStart(c)))

FairSpec == Spec /\ Fairness

-----------------------------------------------------------------------------
TypeOK ==
  /\ disk \in [Files -> 1..Texts]
  /\ clients \in Seq(Client) /\ Len(clients) <= MaxClients
  /\ registered \in 0..Len(clients)
  /\ unsupported \subseteq Files /\ ended \in BOOLEAN
  /\ calls \in [Calls -> Call]
  /\ \A k \in Calls : calls[k].step \notin {"idle", "looking"} => calls[k].client \in DOMAIN clients

(* Whatever server starts or runs is the registered client's: there is one *)
(* at most, however calls overlap (clientFor looks for a client after it   *)
(* has awaited serverFor, and registers its own before it awaits the       *)
(* start), and stop reaches it.                                            *)
NoStray ==
  \A c \in DOMAIN clients : clients[c].state \in {"starting", "ready"} => c = registered

(* A request is put to a server whose text of the file is at least as new  *)
(* as the file was when the call began, though reads of other calls may    *)
(* end out of order, and openOrUpdate leaves out what it takes to be known.*)
AskedFresh ==
  \A k \in Calls : At(k, "asked") /\ calls[k].text # NoText => calls[k].asked >= calls[k].begun

(* A call comes back, whatever the server does: no start, request or wait  *)
(* for diagnostics is without a timer.                                     *)
CallsReturn == \A k \in Calls : ~ At(k, "idle") ~> At(k, "idle")

-----------------------------------------------------------------------------
(* What does not hold (see the README). *)

(* The errors a call reports are about the file as it was when the call    *)
(* began, or newer ("errors language servers now report", problemsIn).     *)
Reports(k) ==
  /\ calls[k].kind = "diagnostics" /\ calls[k].step \in {"read", "asked", "watching"}
  /\ At(k, "idle")'
ReportsCurrent ==
  [][\A k \in Calls : Reports(k) =>
       clients'[calls[k].client].diagnostics[calls[k].file] \in {NoText} \cup calls[k].begun..Texts]_vars

(* After the end no language server is left ("stopping every language      *)
(* server it started", end; "Stops every server", stop).                   *)
EndStops == ended => \A c \in DOMAIN clients : clients[c].state \notin {"starting", "ready"}
=============================================================================
