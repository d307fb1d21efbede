------------------------------ MODULE Gateway -------------------------------
(***************************************************************************)
(* packages/gateway/src/router.ts and identity.ts: chat platforms in front *)
(* of sessions.  An account is linked to an identity by a code; its        *)
(* messages run one turn after the other in the identity's session.  What  *)
(* is awaited - a transcription, a turn, a reply - takes a step of its     *)
(* own.  The identity store is one object in the gateway process and a     *)
(* file, which `jean gateway` on the command line changes as well.         *)
(***************************************************************************)
EXTENDS Naturals, SequencesExt

CONSTANTS
  Accounts,      \* accounts on the platforms
  Identities,    \* identities, one session each
  Nobody,        \* no identity
  Codes,         \* link codes that may be drawn
  Voice,         \* whether voice notes are transcribed
  SendsFail,     \* whether a platform may refuse a reply
  MaxFailures,   \* MAX_FAILURES_PER_ACCOUNT
  MaxTotal,      \* MAX_FAILURES_TOTAL
  MaxMessages    \* bound: messages handled

ASSUME GatewayAssumption ==
  /\ {MaxFailures, MaxTotal, MaxMessages} \subseteq Nat
  /\ Nobody \notin Identities /\ Accounts # {}
  /\ {Voice, SendsFail} \subseteq BOOLEAN

VARIABLES
  known,       \* identities in the store
  index,       \* account -> identity, or Nobody: IdentityStore.index
  accounts,    \* identity -> its accounts: Identity.accounts
  pending,     \* codes that can be redeemed: set of [code, identity]
  failures,    \* account -> wrong codes it tried in the current window
  total,       \* wrong codes everybody tried in the current window
  file,        \* identities.json: [known, accounts]
  used,        \* history: <<code, account>> that were bound
  messages,    \* what came in: [account, place, identity], the id is the position
  queued,      \* identity -> messages waiting: Conversation.queued
  current,     \* identity -> the message drain is at, 0 when none is running
  asker,       \* identity -> account whose message drain began with, and replies to
  stuck        \* history: identities whose drain ended in an error

storeVars == <<known, index, accounts, pending, failures, total, file, used>>
turnVars == <<queued, current, asker, stuck>>
routerVars == <<messages, turnVars>>
vars == <<storeVars, routerVars>>

Places == {"transcribing", "queued", "running", "replying", "failing",
           "done", "dropped", "lost"}

(* What `load` makes of the file. *)
Indexed(held) ==
  [a \in Accounts |-> IF \E i \in Identities : a \in held[i]
                      THEN CHOOSE i \in Identities : a \in held[i] ELSE Nobody]

(* The gateway is started with the identities it has saved. *)
Init ==
  /\ known \in SUBSET Identities
  /\ accounts \in {held \in [Identities -> SUBSET Accounts] :
                     /\ \A i, j \in Identities : i # j => held[i] \cap held[j] = {}
                     /\ \A i \in Identities : held[i] # {} => i \in known}
  /\ index = Indexed(accounts)
  /\ file = [known |-> known, accounts |-> accounts]
  /\ pending = {} /\ used = {}
  /\ failures = [a \in Accounts |-> 0] /\ total = 0
  /\ messages = <<>>
  /\ queued = [i \in Identities |-> <<>>]
  /\ current = [i \in Identities |-> 0]
  /\ asker = [i \in Identities |-> CHOOSE a \in Accounts : TRUE]
  /\ stuck = {}

-----------------------------------------------------------------------------
(* IdentityStore. *)

Save(k, held) == file' = [known |-> k, accounts |-> held]

(* create and issueLinkCode, by who embeds the store. *)
Issue(i, code) ==
  /\ \A p \in pending : p.code # code
  /\ \A u \in used : u[1] # code
  /\ known' = known \cup {i}
  /\ pending' = pending \cup {[code |-> code, identity |-> i]}
  /\ IF i \in known THEN UNCHANGED file ELSE Save(known', accounts)
  /\ UNCHANGED <<index, accounts, failures, total, used, routerVars>>

(* Ten minutes are over. *)
Expire(p) ==
  /\ pending' = pending \ {p}
  /\ UNCHANGED <<known, index, accounts, failures, total, file, used, routerVars>>

(* So is the window in which wrong codes are counted. *)
Forgive ==
  \/ /\ \E a \in Accounts : failures[a] # 0 /\ failures' = [failures EXCEPT ![a] = 0]
     /\ UNCHANGED <<known, index, accounts, pending, total, file, used, routerVars>>
  \/ /\ total # 0 /\ total' = 0
     /\ UNCHANGED <<known, index, accounts, pending, failures, file, used, routerVars>>

(* recordFailure: past the overall limit every pending code dies.          *)
Mistaken(a) ==
  /\ failures' = [failures EXCEPT ![a] = @ + 1]
  /\ total' = total + 1
  /\ pending' = IF total' >= MaxTotal THEN {} ELSE pending
  /\ UNCHANGED <<known, index, accounts, file, used>>

(* Mutant: a code can be redeemed as long as it lasts. *)
RedeemedKept(a, p) ==
  /\ failures' = [failures EXCEPT ![a] = 0]
  /\ index' = [index EXCEPT ![a] = p.identity]
  /\ accounts' = [accounts EXCEPT ![p.identity] = @ \cup {a}]
  /\ used' = used \cup {<<p.code, a>>}
  /\ Save(known, accounts')
  /\ UNCHANGED <<known, pending, total>>

(* The code is spent, and the account linked - and taken from another      *)
(* identity that holds it, which none does that the router lets redeem.    *)
Redeemed(a, p) ==
  /\ pending' = pending \ {p}
  /\ failures' = [failures EXCEPT ![a] = 0]
  /\ index' = [index EXCEPT ![a] = p.identity]
  /\ accounts' = [i \in Identities |->
                    IF i = p.identity THEN accounts[i] \cup {a}
                    ELSE IF i = index[a] THEN accounts[i] \ {a} ELSE accounts[i]]
  /\ used' = used \cup {<<p.code, a>>}
  /\ Save(known, accounts')
  /\ UNCHANGED <<known, total>>

(* redeemLinkCode, of an account that is not linked. *)
Redeem(a, code) ==
  \/ failures[a] >= MaxFailures /\ UNCHANGED storeVars
  \/ /\ failures[a] < MaxFailures
     /\ \/ \E p \in pending : p.code = code /\ Redeemed(a, p)
        \/ (\A p \in pending : p.code # code) /\ Mistaken(a)

(* Mutant: the index forgets the account, the identity keeps it. *)
UnlinkIndex(a) ==
  /\ index' = [index EXCEPT ![a] = Nobody]
  /\ Save(known, accounts)
  /\ UNCHANGED <<known, accounts, pending, failures, total, used>>

Unlink(a) ==
  /\ accounts' = [i \in Identities |-> accounts[i] \ {a}]
  /\ index' = [index EXCEPT ![a] = Nobody]
  /\ Save(known, accounts')
  /\ UNCHANGED <<known, pending, failures, total, used>>

-----------------------------------------------------------------------------
(* The command line, a process of its own: it reads the file, changes it,  *)
(* and is gone, with the code it has drawn.                                *)

CliLink(i) ==
  /\ i \notin file.known
  /\ file' = [file EXCEPT !.known = @ \cup {i}]
  /\ UNCHANGED <<known, index, accounts, pending, failures, total, used, routerVars>>

CliUnlink(a) ==
  /\ \E i \in Identities : a \in file.accounts[i]
  /\ file' = [file EXCEPT !.accounts = [i \in Identities |-> @[i] \ {a}]]
  /\ UNCHANGED <<known, index, accounts, pending, failures, total, used, routerVars>>

-----------------------------------------------------------------------------
(* Router. *)

Arrived(a, place, i) ==
  messages' = Append(messages, [account |-> a, place |-> place, identity |-> i])

Moved(m, place) == [messages EXCEPT ![m].place = place]

(* drain begins with message m. *)
Begin(m, i, list) ==
  /\ messages' = [list EXCEPT ![m].place = "running", ![m].identity = i]
  /\ current' = [current EXCEPT ![i] = m]
  /\ asker' = [asker EXCEPT ![i] = list[m].account]
  /\ UNCHANGED <<queued, stuck>>

(* Mutant: a turn is started whether one is running or not. *)
EnqueueAtOnce(m, i, list) == Begin(m, i, list)

(* enqueue: behind the turn that is running, or a turn at once. *)
Enqueue(m, i, list) ==
  \/ current[i] = 0 /\ Begin(m, i, list)
  \/ /\ current[i] # 0
     /\ messages' = [list EXCEPT ![m].place = "queued", ![m].identity = i]
     /\ queued' = [queued EXCEPT ![i] = Append(@, m)]
     /\ UNCHANGED <<current, asker, stuck>>

Room == Len(messages) < MaxMessages

(* A text from a linked account that is not a command. *)
Say(a) ==
  /\ Room /\ index[a] # Nobody
  /\ LET list == Append(messages, [account |-> a, place |-> "lost", identity |-> Nobody])
     IN  Enqueue(Len(list), index[a], list)
  /\ UNCHANGED storeVars

(* A voice note is transcribed before anything else looks at it. *)
SendVoice(a) ==
  /\ Voice /\ Room
  /\ Arrived(a, "transcribing", Nobody)
  /\ UNCHANGED <<storeVars, turnVars>>

(* It is a text now, if all went well: of an account that may have been    *)
(* linked or unlinked meanwhile, and that may have spelled out a code.     *)
Transcribed(m) ==
  /\ messages[m].place = "transcribing"
  /\ LET a == messages[m].account
     IN  \/ index[a] # Nobody /\ Enqueue(m, index[a], messages) /\ UNCHANGED storeVars
         \/ /\ index[a] = Nobody /\ \E code \in Codes : Redeem(a, code)
            /\ messages' = Moved(m, "done") /\ UNCHANGED turnVars
         \/ messages' = Moved(m, "lost") /\ UNCHANGED <<storeVars, turnVars>>

(* An account that is not linked can only redeem a code. *)
SendCode(a, code) ==
  /\ Room /\ index[a] = Nobody
  /\ Redeem(a, code)
  /\ Arrived(a, "done", Nobody)
  /\ UNCHANGED turnVars

(* /unlink *)
SendUnlink(a) ==
  /\ Room /\ index[a] # Nobody
  /\ Unlink(a)
  /\ Arrived(a, "done", Nobody)
  /\ UNCHANGED turnVars

(* /cancel drops what is waiting; the turn that runs goes on. *)
SendCancel(a) ==
  /\ Room /\ index[a] # Nobody
  /\ LET i == index[a]
     IN  /\ messages' = Append([m \in DOMAIN messages |->
                            IF m \in ToSet(queued[i])
                            THEN [messages[m] EXCEPT !.place = "dropped"] ELSE messages[m]],
                          [account |-> a, place |-> "done", identity |-> Nobody])
         /\ queued' = [queued EXCEPT ![i] = <<>>]
  /\ UNCHANGED <<storeVars, current, asker, stuck>>

-----------------------------------------------------------------------------
(* drain: turn, reply, next. *)

At(i, place) == current[i] # 0 /\ messages[current[i]].place = place

(* run() returns, or throws. *)
TurnEnds(i) ==
  /\ At(i, "running")
  /\ \E place \in {"replying", "failing"} : messages' = Moved(current[i], place)
  /\ UNCHANGED <<storeVars, turnVars>>

(* Mutant: drain returns after its first message. *)
RepliedOnce(i) ==
  /\ current[i] # 0 /\ messages[current[i]].place \in {"replying", "failing"}
  /\ messages' = Moved(current[i], "done")
  /\ current' = [current EXCEPT ![i] = 0]
  /\ UNCHANGED <<storeVars, queued, asker, stuck>>

(* The reply is out: the next message that waits is run, or drain is over. *)
Replied(i) ==
  /\ current[i] # 0 /\ messages[current[i]].place \in {"replying", "failing"}
  /\ IF queued[i] = <<>>
     THEN /\ messages' = Moved(current[i], "done")
          /\ current' = [current EXCEPT ![i] = 0]
          /\ UNCHANGED queued
     ELSE /\ messages' = [Moved(current[i], "done") EXCEPT ![Head(queued[i])].place = "running"]
          /\ current' = [current EXCEPT ![i] = Head(queued[i])]
          /\ queued' = [queued EXCEPT ![i] = Tail(@)]
  /\ UNCHANGED <<storeVars, asker, stuck>>

(* The platform refuses the reply: the failure is told instead... *)
ReplyRefused(i) ==
  /\ SendsFail /\ At(i, "replying")
  /\ messages' = Moved(current[i], "failing")
  /\ UNCHANGED <<storeVars, turnVars>>

(* ...and when that is refused too, drain ends, and what waits stays.      *)
DrainFails(i) ==
  /\ SendsFail /\ At(i, "failing")
  /\ messages' = Moved(current[i], "lost")
  /\ current' = [current EXCEPT ![i] = 0]
  /\ stuck' = stuck \cup {i}
  /\ UNCHANGED <<storeVars, queued, asker>>

(* The gateway dies and is started again: it knows what the file holds. *)
Restart ==
  /\ known' = file.known /\ accounts' = file.accounts
  /\ index' = Indexed(file.accounts)
  /\ pending' = {} /\ failures' = [a \in Accounts |-> 0] /\ total' = 0
  /\ messages' = [m \in DOMAIN messages |->
                    IF messages[m].place \in {"done", "dropped"} THEN messages[m]
                    ELSE [messages[m] EXCEPT !.place = "lost"]]
  /\ queued' = [i \in Identities |-> <<>>]
  /\ current' = [i \in Identities |-> 0]
  /\ stuck' = {}
  /\ UNCHANGED <<file, used, asker>>

Drain(i) == TurnEnds(i) \/ Replied(i)

Next ==
  \/ \E i \in Identities, code \in Codes : Issue(i, code)
  \/ (\E p \in pending : Expire(p)) \/ Forgive
  \/ \E i \in Identities : CliLink(i)
  \/ \E a \in Accounts : CliUnlink(a)
  \/ \E a \in Accounts : Say(a) \/ SendVoice(a) \/ SendUnlink(a) \/ SendCancel(a)
  \/ \E a \in Accounts, code \in Codes : SendCode(a, code)
  \/ \E m \in DOMAIN messages : Transcribed(m)
  \/ \E i \in Identities : Drain(i) \/ ReplyRefused(i) \/ DrainFails(i)
  \/ Restart

Spec == Init /\ [][Next]_vars

(* Turns end, as AgentLoop shows, and platforms answer. *)
FairSpec == Spec /\ \A i \in Identities : WF_vars(Drain(i))

-----------------------------------------------------------------------------
(* Properties. *)

Stores == [known : SUBSET Identities, accounts : [Identities -> SUBSET Accounts]]

(* The state has the shape the code gives it. *)
TypeOK ==
  /\ known \subseteq Identities
  /\ index \in [Accounts -> Identities \cup {Nobody}]
  /\ accounts \in [Identities -> SUBSET Accounts]
  /\ pending \subseteq [code : Codes, identity : Identities]
  /\ failures \in [Accounts -> 0..MaxFailures] /\ total \in Nat
  /\ file \in Stores
  /\ used \subseteq Codes \X Accounts
  /\ messages \in Seq([account : Accounts, place : Places,
                       identity : Identities \cup {Nobody}])
  /\ queued \in [Identities -> Seq(Nat)]
  /\ current \in [Identities -> Nat]
  /\ asker \in [Identities -> Accounts]
  /\ stuck \subseteq Identities

Working == {"running", "replying", "failing"}

(* An identity runs one turn at a time: the message drain is at is the     *)
(* only one being worked on, and those that wait are the ones queued.      *)
OneTurn ==
  \A m \in DOMAIN messages :
    LET i == messages[m].identity
    IN  /\ messages[m].place \in Working => i # Nobody /\ current[i] = m
        /\ messages[m].place = "queued"  => i # Nobody /\ m \in ToSet(queued[i])

(* An account belongs to one identity at most, the one the index finds,    *)
(* before and after a restart.                                             *)
AccountsAgree ==
  /\ \A a \in Accounts, i \in Identities : index[a] = i <=> a \in accounts[i]
  /\ \A i, j \in Identities : i # j => file.accounts[i] \cap file.accounts[j] = {}

(* A code binds one account. *)
CodeOnce == \A u, v \in used : u[1] = v[1] => u = v

(* A message waits only while a turn runs that will fetch it, unless a     *)
(* drain of its identity died: no one is left waiting for a wake-up.       *)
NoneForgotten == \A i \in Identities : queued[i] # <<>> => current[i] # 0 \/ i \in stuck

(* Every message that waits is run and answered, or dropped by /cancel, or *)
(* lost with the process, or its identity's drain has died.                *)
AllAnswered ==
  \A m \in 1..MaxMessages :
    LET Is(places) == m \in DOMAIN messages /\ messages[m].place \in places
    IN  Is({"queued"}) ~> \/ Is({"done", "dropped", "lost"})
                          \/ Is({"queued"}) /\ messages[m].identity \in stuck

-----------------------------------------------------------------------------
(* What does not hold (see the README). *)

(* A reply goes to who asked. *)
RepliesToAsker ==
  \A i \in Identities : At(i, "replying") => messages[current[i]].account = asker[i]

(* A turn runs for an account that is linked. *)
OnlyLinkedRun ==
  \A i \in Identities : At(i, "running") => index[messages[current[i]].account] = i

(* What the command line did to the file is in it until it does more. *)
CliHolds ==
  [][\A i \in Identities : i \in file.known => i \in file'.known]_vars
=============================================================================
