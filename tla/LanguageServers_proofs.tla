----------------------- MODULE LanguageServers_proofs ------------------------
(***************************************************************************)
(* Theorems about the clients of a language server, for any files, any     *)
(* calls that overlap and any number of texts and clients.                 *)
(***************************************************************************)
EXTENDS LanguageServers, SequenceTheorems, TLAPS

(* What a server that starts or runs was sent is what its client has on    *)
(* record.                                                                 *)
Alive(client) == client.state \in {"starting", "ready"}
InStep == \A c \in DOMAIN clients : Alive(clients[c]) => clients[c].told = clients[c].open

(* A file does not go back, so what a call read is no older than what there *)
(* was when it began.                                                      *)
Newer(call) ==
  /\ call.begun <= disk[call.file]
  /\ call.step = "read" => call.text = NoText \/ call.begun <= call.text
  /\ call.step = "asked" /\ call.text # NoText => call.begun <= call.asked

ReadsFresh == \A k \in Calls : Newer(calls[k])

(* A call goes on with a client when that has been started. *)
GoesOn(call) == call.step \in {"reading", "read", "asked", "watching"}
AfterStart == \A k \in Calls : GoesOn(calls[k]) => clients[calls[k].client].state # "starting"

Inv == TypeOK /\ NoStray /\ InStep /\ ReadsFresh /\ AfterStart

-----------------------------------------------------------------------------
LEMMA IdleCall == Idle \in Call /\ Idle.step = "idle" /\ Idle.begun = 0 /\ Idle.file \in Files
<1>1. (CHOOSE f \in Files : TRUE) \in Files
  BY LanguageServersAssumption
<1> QED
  BY <1>1, LanguageServersAssumption DEF Idle, Call, Kinds, Steps, NoText

LEMMA NewClientType ==
  ASSUME NEW f \in Files
  PROVE  /\ NewClient(f) \in Client /\ NewClient(f).state = "starting"
         /\ NewClient(f).told = NewClient(f).open
  BY LanguageServersAssumption DEF NewClient, Client, Nothing, NotOpen, Document, NoText

(* One client, or one call, gives way to another of its kind. *)
LEMMA OneClient ==
  ASSUME clients \in Seq(Client), NEW c \in DOMAIN clients, NEW new \in Client
  PROVE  LET after == [clients EXCEPT ![c] = new]
         IN  /\ after \in Seq(Client) /\ Len(after) = Len(clients)
             /\ DOMAIN after = DOMAIN clients
             /\ after[c] = new
             /\ \A d \in DOMAIN clients \ {c} : after[d] = clients[d]
  BY LenProperties, ExceptSeq

(* What Updated makes of a client. *)
LEMMA UpdatedType ==
  ASSUME NEW client \in Client, NEW f \in Files, NEW text \in 0..Texts
  PROVE  /\ Updated(client, f, text) \in Client
         /\ Updated(client, f, text).state = client.state
         /\ Connected(client) /\ client.told = client.open
            => /\ Updated(client, f, text).told = Updated(client, f, text).open
               /\ text # NoText => Updated(client, f, text).told[f].text = text
<1> DEFINE next == [version |-> client.open[f].version + 1, text |-> text]
<1>1. client.open \in [Files -> Document] /\ client.told \in [Files -> Document]
  BY DEF Client
<1>2. next \in Document
  BY <1>1 DEF Document
<1> DEFINE open == [client.open EXCEPT ![f] = next]
           told == IF Connected(client) THEN [client.told EXCEPT ![f] = next] ELSE client.told
           new == [client EXCEPT !.open = open, !.told = told]
<1>3. open \in [Files -> Document] /\ told \in [Files -> Document]
  BY <1>1, <1>2
<1>4. new \in Client /\ new.state = client.state /\ new.open = open /\ new.told = told
  BY <1>3 DEF Client
<1>5. CASE text = NoText \/ client.open[f].text = text
  BY <1>5 DEF Updated
<1>6. CASE ~ (text = NoText \/ client.open[f].text = text)
  <2>1. Updated(client, f, text) = new
    BY <1>6, <1>1 DEF Updated, Client
  <2>2. open[f] = next
    BY <1>1
  <2> QED
    BY <2>1, <2>2, <1>4
<1> QED
  BY <1>5, <1>6

(* A step of one call. *)
LEMMA OneCall ==
  ASSUME Inv, NEW k \in Calls, NEW new \in Call,
         calls' = [calls EXCEPT ![k] = new],
         new.step \notin {"idle", "looking"} => new.client \in DOMAIN clients,
         GoesOn(new) => clients[new.client].state # "starting",
         Newer(new), UNCHANGED <<disk, clients, registered>>,
         unsupported' \subseteq Files, ended' \in BOOLEAN
  PROVE  Inv'
<1>1. /\ calls' \in [Calls -> Call] /\ calls'[k] = new
      /\ \A l \in Calls \ {k} : calls'[l] = calls[l]
  BY DEF Inv, TypeOK
<1>2. TypeOK'
  BY <1>1 DEF Inv, TypeOK
<1>3. ReadsFresh'
  BY <1>1 DEF Inv, ReadsFresh, Newer
<1>4. AfterStart'
  BY <1>1 DEF Inv, AfterStart
<1> QED
  BY <1>2, <1>3, <1>4 DEF Inv, NoStray, InStep, Alive

LEMMA InitInv == Init => Inv
<1> SUFFICES ASSUME Init PROVE Inv
  OBVIOUS
<1>1. clients \in Seq(Client) /\ Len(clients) = 0 /\ DOMAIN clients = {}
  BY DEF Init
<1>2. TypeOK
  <2>1. calls \in [Calls -> Call] /\ \A k \in Calls : calls[k].step = "idle"
    BY IdleCall DEF Init
  <2>2. disk \in [Files -> 1..Texts]
    BY LanguageServersAssumption DEF Init
  <2>3. Len(clients) <= MaxClients /\ registered \in 0..Len(clients)
    BY <1>1, LanguageServersAssumption DEF Init
  <2> QED
    BY <1>1, <2>1, <2>2, <2>3 DEF Init, TypeOK
<1>3. ReadsFresh
  BY IdleCall DEF Init, ReadsFresh, Newer
<1>4. AfterStart
  BY IdleCall DEF Init, AfterStart, GoesOn
<1> QED
  BY <1>1, <1>2, <1>3, <1>4 DEF Inv, NoStray, InStep

LEMMA NewerIdle == ASSUME TypeOK PROVE Newer(Idle)
  BY IdleCall DEF TypeOK, Newer

(* Parts of the invariant that the proofs of single steps use. *)
LEMMA CallFacts ==
  ASSUME Inv, NEW k \in Calls
  PROVE  /\ calls[k] \in Call /\ calls[k].file \in Files /\ Newer(calls[k])
         /\ disk[calls[k].file] \in 1..Texts
         /\ ~ At(k, "idle") /\ ~ At(k, "looking") =>
              calls[k].client \in DOMAIN clients /\ clients[calls[k].client] \in Client
         /\ GoesOn(calls[k]) => clients[calls[k].client].state # "starting"
  BY ElementOfSeq DEF Inv, TypeOK, ReadsFresh, AfterStart, Call, At

LEMMA CallSteps ==
  ASSUME Inv, NEW k \in Calls, Join(k) \/ NotServed(k) \/ Read(k) \/ NoAnswer(k) \/ Watch(k)
         \/ \E kind \in Kinds, f \in Files : Begin(k, kind, f)
  PROVE  Inv'
<1> USE CallFacts, LanguageServersAssumption
<1>0. /\ unsupported \subseteq Files /\ ended \in BOOLEAN /\ registered \in 0..Len(clients)
      /\ disk \in [Files -> 1..Texts] /\ Newer(Idle) /\ Idle \in Call /\ Idle.step = "idle"
      /\ clients \in Seq(Client) /\ DOMAIN clients = 1..Len(clients) /\ Len(clients) <= MaxClients
      /\ Len(clients) \in Nat
  BY NewerIdle, IdleCall, LenProperties DEF Inv, TypeOK
<1>1. CASE Join(k)
  <2> DEFINE new == Joined(calls[k], registered, clients[registered].state)
  <2>1. registered \in DOMAIN clients /\ At(k, "looking")
    BY <1>0, <1>1 DEF Join
  <2>2. new \in Call /\ new.client = registered /\ new.step \in {"starting", "reading"}
    <3> DEFINE step == IF clients[registered].state = "starting" THEN "starting" ELSE "reading"
    <3>1. step \in Steps /\ step \in {"starting", "reading"} /\ registered \in 0..MaxClients
      BY <1>0 DEF Steps
    <3>2. new = [calls[k] EXCEPT !.client = registered, !.step = step]
      BY DEF Joined
    <3> HIDE DEF step, new
    <3> QED
      BY <3>1, <3>2 DEF Call
  <2>3. new.begun = calls[k].begun /\ new.file = calls[k].file
    BY DEF Joined, Call
  <2>4. Newer(new)
    BY <2>2, <2>3 DEF Newer
  <2>5. calls' = [calls EXCEPT ![k] = new]
    BY <1>1 DEF Join
  <2>6. GoesOn(new) => clients[registered].state # "starting"
    BY DEF Joined, GoesOn, Call
  <2> HIDE DEF new
  <2> QED
    BY <1>0, <1>1, <2>1, <2>2, <2>4, <2>5, <2>6, OneCall DEF Join
<1>2. CASE NotServed(k)
  BY <1>0, <1>2, OneCall DEF NotServed, Return, GoesOn
<1>3. CASE Read(k)
  <2>1. PICK text \in {disk[calls[k].file], NoText} :
          calls' = [calls EXCEPT ![k].step = "read", ![k].text = text]
    BY <1>3 DEF Read
  <2> DEFINE new == [calls[k] EXCEPT !.step = "read", !.text = text]
  <2>2. At(k, "reading") /\ text \in 0..Texts
    BY <1>0, <1>3 DEF Read, NoText
  <2>3. /\ new \in Call /\ new.step = "read" /\ new.text = text
        /\ new.client = calls[k].client /\ new.begun = calls[k].begun /\ new.file = calls[k].file
    BY <2>2 DEF Call, Steps
  <2>4. /\ Newer(new) /\ new.client \in DOMAIN clients
        /\ clients[new.client].state # "starting"
    BY <2>2, <2>3 DEF Newer, At, GoesOn
  <2>5. calls' = [calls EXCEPT ![k] = new]
    BY <2>1
  <2> HIDE DEF new
  <2> QED
    BY <1>0, <1>3, <2>3, <2>4, <2>5, OneCall DEF Read
<1>4. CASE NoAnswer(k)
  <2> DEFINE new == IF calls[k].kind = "query" THEN Idle
                    ELSE Watched(calls[k], clients[calls[k].client])
  <2>1. /\ new \in Call /\ Newer(new)
        /\ new.step # "idle" => /\ new.client \in DOMAIN clients
                                /\ clients[new.client].state # "starting"
    BY <1>0, <1>4 DEF NoAnswer, Watched, Call, Steps, Newer, At, GoesOn
  <2>2. calls' = [calls EXCEPT ![k] = new]
    BY <1>4 DEF NoAnswer
  <2> HIDE DEF new
  <2> QED
    BY <1>0, <1>4, <2>1, <2>2, OneCall DEF NoAnswer, GoesOn
<1>5. CASE Watch(k)
  BY <1>0, <1>5, OneCall DEF Watch, Return, GoesOn
<1>6. ASSUME NEW kind \in Kinds, NEW f \in Files, Begin(k, kind, f)
      PROVE  Inv'
  <2> DEFINE new == [kind |-> kind, step |-> "looking", file |-> f, client |-> 0,
                     begun |-> disk[f], text |-> NoText, asked |-> NoText]
  <2>1. new \in Call /\ Newer(new)
    BY <1>0 DEF Call, Steps, Newer, NoText
  <2>2. calls' = [calls EXCEPT ![k] = new] /\ new.step = "looking"
    BY <1>6 DEF Begin
  <2> HIDE DEF new
  <2> QED
    BY <1>0, <1>6, <2>1, <2>2, OneCall DEF Begin, GoesOn
<1> QED
  BY <1>1, <1>2, <1>3, <1>4, <1>5, <1>6

(* A step of one client, which calls do not notice. *)
LEMMA OneClientStep ==
  ASSUME Inv, NEW c \in DOMAIN clients, NEW new \in Client,
         clients' = [clients EXCEPT ![c] = new],
         new.state \in {"starting", "ready"} => c = registered,
         Alive(new) => new.told = new.open, new.state # "starting",
         UNCHANGED <<disk, registered>>,
         unsupported' \subseteq Files, ended' \in BOOLEAN,
         calls' \in [Calls -> Call],
         \A k \in Calls : calls'[k].step \notin {"idle", "looking"} => calls'[k].client \in DOMAIN clients,
         \A k \in Calls : Newer(calls'[k]),
         \A k \in Calls : GoesOn(calls'[k]) =>
           calls'[k].client = c \/ clients[calls'[k].client].state # "starting"
  PROVE  Inv'
<1>1. /\ clients' \in Seq(Client) /\ Len(clients') = Len(clients) /\ DOMAIN clients' = DOMAIN clients
      /\ clients'[c] = new /\ \A d \in DOMAIN clients \ {c} : clients'[d] = clients[d]
  BY OneClient DEF Inv, TypeOK
<1>2. TypeOK'
  BY <1>1 DEF Inv, TypeOK
<1>3. NoStray' /\ InStep'
  BY <1>1 DEF Inv, NoStray, InStep, Alive
<1>4. ReadsFresh'
  BY DEF Inv, ReadsFresh, Newer
<1>5. AfterStart'
  BY <1>1 DEF Inv, TypeOK, AfterStart, GoesOn
<1> QED
  BY <1>2, <1>3, <1>4, <1>5 DEF Inv

(* Clients and calls as the steps of clients find them. *)
LEMMA ClientFacts ==
  ASSUME Inv, NEW c \in DOMAIN clients
  PROVE  /\ clients[c] \in Client
         /\ clients[c].state \in {"starting", "ready"} => c = registered
         /\ Alive(clients[c]) => clients[c].told = clients[c].open
  BY ElementOfSeq DEF Inv, TypeOK, NoStray, InStep

LEMMA CallsAsBefore ==
  ASSUME Inv, UNCHANGED calls
  PROVE  /\ calls' \in [Calls -> Call]
         /\ \A k \in Calls : calls'[k].step \notin {"idle", "looking"} => calls'[k].client \in DOMAIN clients
         /\ \A k \in Calls : Newer(calls'[k])
         /\ \A k \in Calls : GoesOn(calls'[k]) => clients[calls'[k].client].state # "starting"
  BY DEF Inv, TypeOK, ReadsFresh, AfterStart

LEMMA ClientSteps ==
  ASSUME Inv, NEW c \in DOMAIN clients, Exit(c) \/ \E f \in Files : Publish(c, f)
  PROVE  Inv'
<1>0. unsupported \subseteq Files /\ ended \in BOOLEAN
  BY DEF Inv, TypeOK
<1>1. CASE Exit(c)
  <2> DEFINE new == [clients[c] EXCEPT !.state = "exited", !.told = Nothing]
  <2>1. Nothing \in [Files -> Document]
    BY LanguageServersAssumption DEF Nothing, NotOpen, Document, NoText
  <2>2. new \in Client /\ new.state = "exited"
    BY <2>1, ClientFacts DEF Client
  <2>3. clients' = [clients EXCEPT ![c] = new]
    BY <1>1 DEF Exit
  <2> HIDE DEF new
  <2> QED
    BY <1>0, <1>1, <2>2, <2>3, CallsAsBefore, OneClientStep DEF Exit, Alive
<1>2. ASSUME NEW f \in Files, Publish(c, f)
      PROVE  Inv'
  <2>1. PICK found \in {NoText, Found(clients[c].told[f].text)} :
          clients' = [clients EXCEPT ![c].diagnostics[f] = found]
    BY <1>2 DEF Publish
  <2>2. found \in 0..Texts
    BY <2>1, ClientFacts, LanguageServersAssumption DEF Found, Client, Document, NoText
  <2> DEFINE new == [clients[c] EXCEPT !.diagnostics[f] = found]
  <2>3. /\ new \in Client /\ new.state = clients[c].state
        /\ new.told = clients[c].told /\ new.open = clients[c].open
        /\ new.state = "ready"
    BY <1>2, <2>2, ClientFacts DEF Client, Publish, Connected
  <2>4. clients' = [clients EXCEPT ![c] = new]
    BY <2>1
  <2> HIDE DEF new
  <2> QED
    BY <1>0, <1>2, <2>3, <2>4, ClientFacts, CallsAsBefore, OneClientStep DEF Publish, Alive
<1> QED
  BY <1>1, <1>2

LEMMA StartedStep ==
  ASSUME Inv, NEW c \in DOMAIN clients, Started(c)
  PROVE  Inv'
<1>1. PICK pulls \in BOOLEAN :
        clients' = [clients EXCEPT ![c].state = "ready", ![c].pulls = pulls]
  BY DEF Started
<1> DEFINE new == [clients[c] EXCEPT !.state = "ready", !.pulls = pulls]
<1>2. /\ new \in Client /\ new.told = clients[c].told /\ new.open = clients[c].open
      /\ new.state = "ready"
  BY ClientFacts DEF Client
<1>3. clients' = [clients EXCEPT ![c] = new]
  BY <1>1
<1>4. \A k \in Calls : /\ calls'[k] \in Call /\ Newer(calls'[k])
                       /\ calls'[k].step \notin {"idle", "looking"} => calls'[k].client \in DOMAIN clients
                       /\ GoesOn(calls'[k]) =>
                            calls'[k].client = c \/ clients[calls'[k].client].state # "starting"
  <2> SUFFICES ASSUME NEW k \in Calls
               PROVE  /\ calls'[k] \in Call /\ Newer(calls'[k])
                      /\ calls'[k].step \notin {"idle", "looking"} => calls'[k].client \in DOMAIN clients
                      /\ GoesOn(calls'[k]) =>
                           calls'[k].client = c \/ clients[calls'[k].client].state # "starting"
    OBVIOUS
  <2>1. CASE Waiting(calls[k], c)
    <3> DEFINE call == [calls[k] EXCEPT !.step = "reading"]
    <3>1. /\ call \in Call /\ call.step = "reading" /\ call.client = c
          /\ call.begun = calls[k].begun /\ call.file = calls[k].file
      BY <2>1, CallFacts DEF Call, Steps, Waiting
    <3>2. calls'[k] = call
      BY <2>1 DEF Started
    <3> HIDE DEF call
    <3> QED
      BY <3>1, <3>2, CallFacts DEF Newer
  <2>2. CASE ~ Waiting(calls[k], c)
    BY <2>2, CallFacts DEF Started, At
  <2> QED
    BY <2>1, <2>2
<1>5. calls' \in [Calls -> Call]
  BY <1>4 DEF Started
<1>6. c = registered
  BY ClientFacts DEF Started
<1> HIDE DEF new
<1>7. new.told = new.open
  <2>1. clients[c].told = clients[c].open
    BY ClientFacts DEF Started, Alive
  <2> QED
    BY <1>2, <2>1
<1>8. unsupported' \subseteq Files /\ ended' \in BOOLEAN /\ UNCHANGED <<disk, registered>>
  BY DEF Started, Inv, TypeOK
<1>9. new \in Client /\ new.state # "starting"
  BY <1>2
<1> QED
  BY <1>3, <1>4, <1>5, <1>6, <1>7, <1>8, <1>9, OneClientStep

(* The end of a client takes the registered one away, and every call that  *)
(* waits for its start with it.                                            *)
LEMMA AbandonStep ==
  ASSUME Inv, NEW c \in DOMAIN clients, c = registered, Abandon(c),
         registered' = 0, UNCHANGED disk,
         unsupported' \subseteq Files, ended' \in BOOLEAN
  PROVE  Inv'
<1> DEFINE new == [clients[c] EXCEPT !.state = "stopped", !.open = Nothing, !.told = Nothing]
<1>1. Nothing \in [Files -> Document]
  BY LanguageServersAssumption DEF Nothing, NotOpen, Document, NoText
<1>2. new \in Client /\ new.state = "stopped"
  BY <1>1, ClientFacts DEF Client
<1>3. clients' = [clients EXCEPT ![c] = new]
  BY DEF Abandon
<1> HIDE DEF new
<1>4. /\ clients' \in Seq(Client) /\ Len(clients') = Len(clients) /\ DOMAIN clients' = DOMAIN clients
      /\ clients'[c] = new /\ \A d \in DOMAIN clients \ {c} : clients'[d] = clients[d]
  BY <1>2, <1>3, OneClient DEF Inv, TypeOK
<1>5. \A k \in Calls :
        /\ calls'[k] \in Call /\ Newer(calls'[k])
        /\ calls'[k].step \in {"idle", "looking"} \/ calls'[k] = calls[k]
  <2> SUFFICES ASSUME NEW k \in Calls
               PROVE  /\ calls'[k] \in Call /\ Newer(calls'[k])
                      /\ calls'[k].step \in {"idle", "looking"} \/ calls'[k] = calls[k]
    OBVIOUS
  <2>1. calls'[k] = Unserved(calls[k], c)
    BY DEF Abandon
  <2> DEFINE again == [calls[k] EXCEPT !.kind = "diagnostics", !.step = "looking", !.client = 0]
  <2>2. /\ again \in Call /\ again.step = "looking"
        /\ again.begun = calls[k].begun /\ again.file = calls[k].file
    <3>1. calls[k] \in Call /\ 0 \in 0..MaxClients
      BY CallFacts, LanguageServersAssumption
    <3> QED
      BY <3>1 DEF Call, Steps, Kinds
  <2>3. Newer(again)
    BY <2>2, CallFacts DEF Newer
  <2>4. \/ Unserved(calls[k], c) = calls[k]
        \/ Unserved(calls[k], c) = again
        \/ Unserved(calls[k], c) = Idle
    BY DEF Unserved
  <2> HIDE DEF again
  <2>5. TypeOK
    BY DEF Inv
  <2> QED
    BY <2>1, <2>2, <2>3, <2>4, <2>5, IdleCall, NewerIdle, CallFacts
<1>6. calls' \in [Calls -> Call]
  BY <1>5 DEF Abandon
<1>7. TypeOK'
  <2>1. \A k \in Calls : calls'[k].step \notin {"idle", "looking"} => calls'[k].client \in DOMAIN clients'
    BY <1>4, <1>5 DEF Inv, TypeOK
  <2>2. Len(clients') \in Nat /\ Len(clients') <= MaxClients /\ disk' \in [Files -> 1..Texts]
    BY <1>4, LenProperties DEF Inv, TypeOK
  <2> QED
    BY <1>4, <1>6, <2>1, <2>2 DEF TypeOK
<1>8. NoStray' /\ InStep'
  BY <1>2, <1>4 DEF Inv, NoStray, InStep, Alive
<1>9. ReadsFresh'
  BY <1>5 DEF ReadsFresh, Newer
<1>10. AfterStart'
  BY <1>2, <1>4, <1>5 DEF Inv, TypeOK, AfterStart, GoesOn
<1> QED
  BY <1>7, <1>8, <1>9, <1>10 DEF Inv

LEMMA EndSteps ==
  ASSUME Inv, Stop \/ \E c \in DOMAIN clients : FailToStart(c)
  PROVE  Inv'
<1>1. /\ unsupported \subseteq Files /\ ended \in BOOLEAN
      /\ clients \in Seq(Client) /\ DOMAIN clients = 1..Len(clients) /\ Len(clients) \in Nat
      /\ registered \in 0..Len(clients)
  BY LenProperties DEF Inv, TypeOK
<1>2. ASSUME NEW c \in DOMAIN clients, FailToStart(c)
      PROVE  Inv'
  <2>1. c = registered /\ clients[c].by \in Files
    BY <1>2, ClientFacts DEF FailToStart, Client
  <2> QED
    BY <1>1, <1>2, <2>1, AbandonStep DEF FailToStart
<1>3. CASE Stop /\ registered # 0
  <2>1. registered \in DOMAIN clients
    BY <1>1, <1>3
  <2>2. clients[registered].by \in Files
    BY <2>1, ClientFacts DEF Client
  <2>3. unsupported' \subseteq Files /\ ended' \in BOOLEAN /\ Abandon(registered)
    BY <1>3, <2>2 DEF Stop
  <2> QED
    BY <1>3, <2>1, <2>3, AbandonStep DEF Stop
<1>4. CASE Stop /\ registered = 0
  <2>1. UNCHANGED <<disk, clients, registered, calls>> /\ unsupported' = {} /\ ended' = TRUE
    BY <1>4 DEF Stop
  <2> QED
    BY <2>1 DEF Inv, TypeOK, NoStray, InStep, Alive, ReadsFresh, Newer, AfterStart, GoesOn
<1> QED
  BY <1>2, <1>3, <1>4

(* A request goes to a running server, which was sent what its client has  *)
(* on record: the text that the call read.                                 *)
LEMMA ContinuedCall ==
  ASSUME Inv, NEW call \in Call, NEW client \in Client, Newer(call), call.step = "read",
         client.state # "starting", call.client \in DOMAIN clients,
         Connected(client) /\ call.text # NoText => client.told[call.file].text = call.text
  PROVE  LET new == Continued(call, client)
         IN  /\ new \in Call /\ Newer(new)
             /\ new.step \in {"idle", "looking"} \/ new.client = call.client
<1> DEFINE ask == [call EXCEPT !.step = "asked", !.asked = client.told[call.file].text]
           again == [call EXCEPT !.kind = "diagnostics", !.step = "looking",
                                 !.client = 0, !.text = NoText]
           watch == [call EXCEPT !.step = "watching"]
<1>1. client.told[call.file].text \in 0..Texts /\ 0 \in 0..MaxClients /\ 0 \in 0..Texts
  BY LanguageServersAssumption DEF Client, Document, Call
<1>2. /\ ask \in Call /\ ask.step = "asked" /\ ask.begun = call.begun /\ ask.file = call.file
      /\ ask.text = call.text /\ ask.client = call.client
      /\ ask.asked = client.told[call.file].text
  BY <1>1 DEF Call, Steps
<1>3. Connected(client) => Newer(ask)
  BY <1>2 DEF Newer
<1>4. again \in Call /\ again.step = "looking" /\ again.begun = call.begun /\ again.file = call.file
  BY <1>1 DEF Call, Steps, Kinds, NoText
<1>5. /\ watch \in Call /\ watch.step = "watching" /\ watch.begun = call.begun
      /\ watch.file = call.file /\ watch.client = call.client
  BY DEF Call, Steps
<1>6. Newer(again) /\ Newer(watch)
  BY <1>4, <1>5 DEF Newer
<1>7. \/ Continued(call, client) = ask /\ Connected(client)
      \/ Continued(call, client) = again
      \/ Continued(call, client) = watch
      \/ Continued(call, client) = Idle
  BY DEF Continued, Watched
<1> HIDE DEF ask, again, watch
<1>8. Newer(Idle)
  BY NewerIdle DEF Inv
<1> QED
  BY <1>2, <1>3, <1>4, <1>5, <1>6, <1>7, <1>8, IdleCall

LEMMA UpdateStep ==
  ASSUME Inv, NEW k \in Calls, Update(k)
  PROVE  Inv'
<1> DEFINE call == calls[k]
           c == call.client
           client == Updated(clients[c], call.file, call.text)
           new == Continued(call, client)
<1>1. /\ call \in Call /\ call.file \in Files /\ call.text \in 0..Texts
      /\ Newer(call) /\ call.step = "read"
      /\ c \in DOMAIN clients /\ clients[c] \in Client /\ clients[c].state # "starting"
  BY CallFacts DEF Update, At, GoesOn, Call
<1>2. clients' = [clients EXCEPT ![c] = client] /\ calls' = [calls EXCEPT ![k] = new]
  BY DEF Update
<1>3. /\ clients[c].state \in {"starting", "ready"} => c = registered
      /\ Alive(clients[c]) => clients[c].told = clients[c].open
  BY <1>1, ClientFacts
<1>4. client \in Client /\ client.state = clients[c].state
  BY <1>1, UpdatedType
<1>5. Connected(client) => /\ client.told = client.open
                           /\ call.text # NoText => client.told[call.file].text = call.text
  BY <1>1, <1>3, <1>4, UpdatedType DEF Connected, Alive
<1>6. Alive(client) => client.told = client.open
  BY <1>1, <1>4, <1>5 DEF Alive, Connected
<1>7. /\ new \in Call /\ Newer(new)
      /\ new.step \in {"idle", "looking"} \/ new.client = c
  <2> HIDE DEF call, client
  <2> QED
    BY <1>1, <1>4, <1>5, ContinuedCall
<1> HIDE DEF call, client, new
<1>8. unsupported' \subseteq Files /\ ended' \in BOOLEAN /\ UNCHANGED <<disk, registered>>
  BY DEF Update, Inv, TypeOK
<1>9. /\ calls' \in [Calls -> Call] /\ calls'[k] = new
      /\ \A l \in Calls \ {k} : calls'[l] = calls[l]
  BY <1>2, <1>7 DEF Inv, TypeOK
<1>10. \A l \in Calls :
         /\ Newer(calls'[l])
         /\ calls'[l].step \notin {"idle", "looking"} => calls'[l].client \in DOMAIN clients
         /\ GoesOn(calls'[l]) =>
              calls'[l].client = c \/ clients[calls'[l].client].state # "starting"
  BY <1>1, <1>7, <1>9 DEF GoesOn, Inv, TypeOK, ReadsFresh, AfterStart
<1> QED
  BY <1>1, <1>2, <1>3, <1>4, <1>6, <1>8, <1>9, <1>10, OneClientStep

LEMMA AnswerStep ==
  ASSUME Inv, NEW k \in Calls, Answer(k)
  PROVE  Inv'
<1>1. /\ unsupported' \subseteq Files /\ ended' \in BOOLEAN /\ UNCHANGED <<disk, registered>>
      /\ calls' = [calls EXCEPT ![k] = Idle] /\ Newer(Idle) /\ Idle \in Call /\ Idle.step = "idle"
  BY NewerIdle, IdleCall DEF Answer, Return, Inv, TypeOK
<1>2. CASE calls[k].kind = "query"
  BY <1>1, <1>2, OneCall DEF Answer, GoesOn
<1>3. CASE calls[k].kind # "query"
  <2> DEFINE c == calls[k].client
             found == Found(calls[k].asked)
             new == [clients[c] EXCEPT !.diagnostics[calls[k].file] = found]
  <2>1. /\ c \in DOMAIN clients /\ clients[c] \in Client /\ clients[c].state = "ready"
        /\ calls[k].file \in Files /\ calls[k].asked \in 0..Texts
    BY CallFacts DEF Answer, At, Connected, Call
  <2>2. found \in 0..Texts
    BY <2>1, LanguageServersAssumption DEF Found, NoText
  <2>3. clients' = [clients EXCEPT ![c] = new]
    BY <1>3 DEF Answer
  <2> HIDE DEF found
  <2>4. /\ new \in Client /\ new.state = "ready"
        /\ new.told = clients[c].told /\ new.open = clients[c].open
    BY <2>1, <2>2 DEF Client
  <2>5. c = registered /\ new.told = new.open
    BY <2>1, <2>4, ClientFacts DEF Alive
  <2>6. /\ calls' \in [Calls -> Call] /\ calls'[k] = Idle
        /\ \A l \in Calls \ {k} : calls'[l] = calls[l]
    BY <1>1 DEF Inv, TypeOK
  <2>7. \A l \in Calls :
          /\ Newer(calls'[l])
          /\ calls'[l].step \notin {"idle", "looking"} => calls'[l].client \in DOMAIN clients
          /\ GoesOn(calls'[l]) => clients[calls'[l].client].state # "starting"
    BY <1>1, <2>6 DEF GoesOn, Inv, TypeOK, ReadsFresh, AfterStart
  <2> HIDE DEF c, new
  <2> QED
    BY <1>1, <2>1, <2>3, <2>4, <2>5, <2>6, <2>7, OneClientStep
<1> QED
  BY <1>2, <1>3

LEMMA CreateStep ==
  ASSUME Inv, NEW k \in Calls, Create(k)
  PROVE  Inv'
<1> DEFINE n == Len(clients) + 1
           made == NewClient(calls[k].file)
           new == Joined(calls[k], n, "starting")
<1>1. clients \in Seq(Client) /\ Len(clients) \in Nat /\ DOMAIN clients = 1..Len(clients)
  BY LenProperties DEF Inv, TypeOK
<1>2. /\ made \in Client /\ made.state = "starting" /\ made.told = made.open
      /\ calls[k] \in Call /\ Newer(calls[k])
  BY CallFacts, NewClientType
<1> HIDE DEF made
<1>3. clients' = Append(clients, made)
  BY DEF Create, made
<1>4. /\ clients' \in Seq(Client) /\ Len(clients') = n /\ DOMAIN clients' = 1..n
      /\ clients'[n] = made /\ \A d \in DOMAIN clients : clients'[d] = clients[d]
  BY <1>1, <1>2, <1>3, AppendProperties, LenProperties
<1>5. n \in 1..MaxClients
  BY <1>1, LanguageServersAssumption DEF Create
<1>6. /\ new \in Call /\ new.step = "starting" /\ new.client = n
      /\ new.begun = calls[k].begun /\ new.file = calls[k].file
  <2>1. new = [calls[k] EXCEPT !.client = n, !.step = "starting"]
    BY DEF Joined
  <2>2. n \in 0..MaxClients /\ "starting" \in Steps
    BY <1>5 DEF Steps
  <2> HIDE DEF n, new
  <2> QED
    BY <1>2, <2>1, <2>2 DEF Call
<1>7. registered = 0 /\ registered' = n /\ calls' = [calls EXCEPT ![k] = new]
  BY <1>4 DEF Create
<1> HIDE DEF new
<1>8. /\ calls' \in [Calls -> Call] /\ calls'[k] = new
      /\ \A l \in Calls \ {k} : calls'[l] = calls[l]
  BY <1>6, <1>7 DEF Inv, TypeOK
<1>9. TypeOK'
  <2>1. \A l \in Calls : calls'[l].step \notin {"idle", "looking"} => calls'[l].client \in DOMAIN clients'
    <3>1. DOMAIN clients \subseteq 1..n /\ n \in 1..n
      BY <1>1, <1>5, LenProperties DEF Inv, TypeOK
    <3>2. ASSUME NEW l \in Calls \ {k}, calls[l].step \notin {"idle", "looking"}
          PROVE  calls[l].client \in DOMAIN clients
      BY <3>2 DEF Inv, TypeOK
    <3> QED
      BY <1>4, <1>6, <1>8, <3>1, <3>2
  <2>2. registered' \in 0..Len(clients') /\ Len(clients') <= MaxClients
    BY <1>1, <1>4, <1>5, <1>7
  <2> QED
    BY <1>4, <1>8, <2>1, <2>2 DEF Create, Inv, TypeOK
<1>10. \A d \in DOMAIN clients' : d = n \/ d \in DOMAIN clients
  BY <1>1, <1>4
<1>11. \A d \in DOMAIN clients : ~ Alive(clients[d])
  BY <1>1, <1>7 DEF Inv, NoStray, Alive
<1>12. NoStray' /\ InStep'
  BY <1>2, <1>4, <1>7, <1>10, <1>11 DEF NoStray, InStep, Alive
<1>13. ReadsFresh'
  <2>1. Newer(new)
    BY <1>2, <1>6 DEF Newer
  <2> QED
    BY <1>8, <2>1 DEF Create, Inv, ReadsFresh, Newer
<1>14. AfterStart'
  BY <1>4, <1>6, <1>8 DEF Inv, TypeOK, AfterStart, GoesOn
<1> QED
  BY <1>9, <1>12, <1>13, <1>14 DEF Inv

LEMMA EditStep ==
  ASSUME Inv, NEW f \in Files, Edit(f)
  PROVE  Inv'
<1>1. disk' \in [Files -> 1..Texts] /\ \A g \in Files : disk[g] <= disk'[g]
  BY LanguageServersAssumption DEF Inv, TypeOK, Edit
<1>2. TypeOK'
  BY <1>1 DEF Edit, Inv, TypeOK
<1>3. ReadsFresh'
  <2> SUFFICES ASSUME NEW k \in Calls PROVE Newer(calls[k])'
    BY DEF ReadsFresh
  <2>1. calls[k].file \in Files /\ calls[k].begun \in Nat /\ Newer(calls[k])
    BY CallFacts, LanguageServersAssumption DEF Call
  <2>2. disk[calls[k].file] \in Nat /\ disk'[calls[k].file] \in Nat
    BY <1>1, <2>1, LanguageServersAssumption DEF Inv, TypeOK
  <2> QED
    BY <1>1, <2>1, <2>2 DEF Edit, Newer
<1> QED
  BY <1>2, <1>3 DEF Edit, Inv, NoStray, InStep, Alive, AfterStart, GoesOn

-----------------------------------------------------------------------------
LEMMA NextInv == Inv /\ [Next]_vars => Inv'
<1> SUFFICES ASSUME Inv, [Next]_vars PROVE Inv'
  OBVIOUS
<1>1. CASE \E f \in Files : Edit(f)
  BY <1>1, EditStep
<1>2. CASE \E k \in Calls, kind \in Kinds, f \in Files : Begin(k, kind, f)
  BY <1>2, CallSteps
<1>3. ASSUME NEW k \in Calls, Proceed(k) \/ Answer(k)
      PROVE  Inv'
  BY <1>3, CallSteps, CreateStep, UpdateStep, AnswerStep DEF Proceed
<1>4. ASSUME NEW c \in DOMAIN clients, Started(c) \/ FailToStart(c) \/ Exit(c)
      PROVE  Inv'
  BY <1>4, StartedStep, EndSteps, ClientSteps
<1>5. CASE \E c \in DOMAIN clients, f \in Files : Publish(c, f)
  BY <1>5, ClientSteps
<1>6. CASE Stop
  BY <1>6, EndSteps
<1>7. CASE UNCHANGED vars
  BY <1>7 DEF vars, Inv, TypeOK, NoStray, InStep, Alive, ReadsFresh, Newer, AfterStart, GoesOn
<1> QED
  BY <1>1, <1>2, <1>3, <1>4, <1>5, <1>6, <1>7 DEF Next

LEMMA InvHolds == Spec => []Inv
  BY InitInv, NextInv, PTL DEF Spec

(* Clients, documents and calls keep their form, and a call past its start *)
(* has a client that was made.                                             *)
THEOREM TypeCorrect == Spec => []TypeOK
<1>1. Inv => TypeOK
  BY DEF Inv
<1> QED
  BY <1>1, InvHolds, PTL

(* Whatever calls overlap, one server at most starts or runs, and it is    *)
(* the one that LspManager.stop would stop.                                *)
THEOREM NoStrayTheorem == Spec => []NoStray
<1>1. Inv => NoStray
  BY DEF Inv
<1> QED
  BY <1>1, InvHolds, PTL

(* A request never reaches a server that knows an older text than the file *)
(* had when the call began.                                                *)
THEOREM AskedFreshTheorem == Spec => []AskedFresh
<1>1. Inv => AskedFresh
  BY LanguageServersAssumption DEF Inv, TypeOK, Call, ReadsFresh, Newer, AskedFresh, At
<1> QED
  BY <1>1, InvHolds, PTL
=============================================================================
