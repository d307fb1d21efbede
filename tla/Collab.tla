------------------------------- MODULE Collab -------------------------------
(***************************************************************************)
(* packages/collab/src/session.ts: a shared session, sealed, over a relay. *)
(* Each participant keeps its own list of members and the highest sequence *)
(* number it has seen of every other one.  The relay is outside of src/    *)
(* (LocalHub, for tests, is a faultless one): it may lose, repeat, delay   *)
(* and reorder envelopes, but not change them.                             *)
(* Invites are left out: nothing connects them with joining.               *)
(***************************************************************************)
EXTENDS Naturals, Sequences, FiniteSets

CONSTANTS
  Host,        \* the host's participant id, which guests have from the invite
  Guests,      \* the others
  RateLimit,   \* SessionOptions.rateLimit: envelopes of one sender in a second
  MaxSent      \* bound: envelopes sent

ASSUME CollabAssumption ==
  Host \notin Guests /\ RateLimit \in Nat \ {0} /\ MaxSent \in Nat

Everyone == Guests \cup {Host}
Roles == {"host", "contributor", "viewer"}
Granted == {"contributor", "viewer"}  \* bound: nobody is made a second host
Unknown == "unknown"

(* ROLE_CAPABILITIES.  A presence frame, which needs none, fares like a     *)
(* suggestion, which every role may make.                                  *)
Can(role, capability) ==
  \/ capability = "suggest" /\ role \in Roles
  \/ capability = "steer"   /\ role \in {"host", "contributor"}
  \/ capability = "end"     /\ role = "host"

VARIABLES
  state,      \* participant -> its Session: none yet, in, ending (it waits for
              \* the transport to take its last words), ended
  self,       \* participant -> self.role
  members,    \* participant -> participants: who that is to it, or Unknown
  seen,       \* participant -> sequences
  recent,     \* participant -> recent, how many: sender -> envelopes this second
  outgoing,   \* participant -> outgoing
  sent,       \* envelopes the relay has taken
  surfaced,   \* history: participant -> sender -> frames given to events.frame
  left,       \* history: participant -> number of the last leave of each it has handled
  throttled   \* history: who dropped the word that all is over, because of the rate

hereVars == <<state, self>>
knownVars == <<members, seen, recent>>
relayVars == <<outgoing, sent>>
pastVars == <<surfaced, left, throttled>>
vars == <<hereVars, knownVars, relayVars, pastVars>>

States == {"none", "in", "ending", "ended"}
Capabilities == {"suggest", "steer"}
Envelopes == [from : Everyone, sequence : Nat \ {0},
              kind : {"join", "leave", "control"} \cup Capabilities]

Init ==
  /\ state = [p \in Everyone |-> IF p = Host THEN "in" ELSE "none"]
  /\ self  = [p \in Everyone |-> IF p = Host THEN "host" ELSE "viewer"]
  /\ members = [p \in Everyone |-> [q \in Everyone |-> IF p = q THEN self[p] ELSE Unknown]]
  /\ seen   = [p \in Everyone |-> [q \in Everyone |-> 0]]
  /\ recent = seen
  /\ outgoing = [p \in Everyone |-> 0]
  /\ sent = {}
  /\ surfaced = [p \in Everyone |-> [q \in Everyone |-> <<>>]]
  /\ left = seen /\ throttled = {}

-----------------------------------------------------------------------------
(* What a participant calls. *)

(* A guest that has the invite makes its Session. *)
Enter(g) ==
  /\ state[g] = "none"
  /\ state' = [state EXCEPT ![g] = "in"]
  /\ UNCHANGED <<self, knownVars, relayVars, pastVars>>

(* transmit: the next number, whatever becomes of the envelope. *)
Transmit(p, kind) ==
  /\ Cardinality(sent) < MaxSent
  /\ outgoing' = [outgoing EXCEPT ![p] = @ + 1]
  /\ sent' = sent \cup {[from |-> p, sequence |-> outgoing'[p], kind |-> kind]}

(* join looks at nothing: who has left, or has been told that all is over, *)
(* may announce itself all the same.                                       *)
Join(p) ==
  /\ state[p] # "none"
  /\ Transmit(p, "join")
  /\ UNCHANGED <<hereVars, knownVars, pastVars>>

(* send throws when the session has ended or the role does not allow it. *)
Send(p, capability) ==
  /\ state[p] \in {"in", "ending"} /\ Can(self[p], capability)
  /\ Transmit(p, capability)
  /\ UNCHANGED <<hereVars, knownVars, pastVars>>

(* leave, and end, which only the host may: the envelope is sent, and when *)
(* the transport has it the session is over.  Both may be called again.    *)
Ending(p) == state' = [state EXCEPT ![p] = IF @ = "ended" THEN @ ELSE "ending"]

Leave(p) ==
  /\ state[p] # "none"
  /\ Transmit(p, "leave")
  /\ Ending(p)
  /\ UNCHANGED <<self, knownVars, pastVars>>

End(p) ==
  /\ state[p] # "none" /\ Can(self[p], "end")
  /\ Transmit(p, "control")
  /\ Ending(p)
  /\ UNCHANGED <<self, knownVars, pastVars>>

Over(p) ==
  /\ state[p] = "ending"
  /\ state' = [state EXCEPT ![p] = "ended"]
  /\ UNCHANGED <<self, knownVars, relayVars, pastVars>>

(* promote and remove change what the host knows, and nobody is told.  That *)
(* the host removes itself changes only the list it shows: it is left out.  *)
Promote(q, role) ==
  /\ members[Host][q] # Unknown /\ q # Host
  /\ members' = [members EXCEPT ![Host][q] = role]
  /\ UNCHANGED <<hereVars, seen, recent, relayVars, pastVars>>

Remove(q) ==
  /\ members[Host][q] # Unknown /\ q # Host
  /\ members' = [members EXCEPT ![Host][q] = Unknown]
  /\ UNCHANGED <<hereVars, seen, recent, relayVars, pastVars>>

(* The guest's program is told its role in some other way. *)
Tell(g) ==
  /\ members[Host][g] # Unknown
  /\ self' = [self EXCEPT ![g] = members[Host][g]]
  /\ members' = [members EXCEPT ![g][g] = self'[g]]
  /\ UNCHANGED <<state, seen, recent, relayVars, pastVars>>

-----------------------------------------------------------------------------
(* handle: an envelope comes, for the first time or again. *)

Listens(p, e) == state[p] \in {"in", "ending"} /\ e \in sent /\ e.from # p

WithinRate(p, e) == recent[p][e.from] < RateLimit

(* Mutants: the number of the last envelope is still good, and a join is   *)
(* welcome whatever its number.                                            *)
FreshOrSame(p, e) == e.sequence >= seen[p][e.from]
FreshOrJoin(p, e) == e.kind = "join" \/ e.sequence > seen[p][e.from]

(* Not a replay. *)
Fresh(p, e) == e.sequence > seen[p][e.from]

TooFast(p, e) ==
  /\ Listens(p, e) /\ ~WithinRate(p, e)
  /\ throttled' = throttled \cup (IF e.kind = "control" THEN {p} ELSE {})
  /\ UNCHANGED <<hereVars, knownVars, relayVars, surfaced, left>>

(* What a replay costs its sender is a part of the rate. *)
Replay(p, e) ==
  /\ Listens(p, e) /\ WithinRate(p, e) /\ ~Fresh(p, e)
  /\ recent' = [recent EXCEPT ![p][e.from] = @ + 1]
  /\ UNCHANGED <<hereVars, members, seen, relayVars, pastVars>>

(* An envelope of this kind is let in, opened, and noted as seen. *)
Opened(p, e, kinds) ==
  /\ Listens(p, e) /\ WithinRate(p, e) /\ Fresh(p, e) /\ e.kind \in kinds
  /\ recent' = [recent EXCEPT ![p][e.from] = @ + 1]
  /\ seen' = [seen EXCEPT ![p][e.from] = e.sequence]
  /\ UNCHANGED <<self, relayVars, throttled>>

(* Whoever joins is a viewer, unless it is the host. *)
Joined(p, e) ==
  /\ Opened(p, e, {"join"})
  /\ members' = [members EXCEPT ![p][e.from] = IF e.from = Host THEN "host" ELSE "viewer"]
  /\ UNCHANGED <<state, surfaced, left>>

Left(p, e) ==
  /\ Opened(p, e, {"leave"})
  /\ members' = [members EXCEPT ![p][e.from] = Unknown]
  /\ left' = [left EXCEPT ![p][e.from] = e.sequence]
  /\ UNCHANGED <<state, surfaced>>

(* Mutant: like a frame, the end counts only from a member. *)
EndedByMember(p, e) ==
  /\ Opened(p, e, {"control"})
  /\ state' = [state EXCEPT ![p] = IF members[p][e.from] = Unknown THEN @ ELSE "ended"]
  /\ UNCHANGED <<members, surfaced, left>>

Ended(p, e) ==
  /\ Opened(p, e, {"control"})
  /\ state' = [state EXCEPT ![p] = "ended"]
  /\ UNCHANGED <<members, surfaced, left>>

(* A frame is for the user if its sender is known and may send it. *)
Frame(p, e) ==
  /\ Opened(p, e, Capabilities)
  /\ surfaced' =
       IF members[p][e.from] # Unknown /\ Can(members[p][e.from], e.kind)
       THEN [surfaced EXCEPT ![p][e.from] = Append(@, e.sequence)] ELSE surfaced
  /\ UNCHANGED <<state, members, left>>

Handle(p, e) ==
  TooFast(p, e) \/ Replay(p, e) \/ Joined(p, e) \/ Left(p, e) \/ Ended(p, e) \/ Frame(p, e)

(* What came a second ago no longer counts. *)
Age(p, q) ==
  /\ state[p] \in {"in", "ending"} /\ recent[p][q] > 0
  /\ recent' = [recent EXCEPT ![p][q] = @ - 1]
  /\ UNCHANGED <<hereVars, members, seen, relayVars, pastVars>>

Next ==
  \/ \E g \in Guests : Enter(g) \/ Tell(g)
  \/ \E q \in Guests, role \in Granted : Promote(q, role)
  \/ \E q \in Guests : Remove(q)
  \/ \E p \in Everyone : Join(p) \/ Leave(p) \/ End(p) \/ Over(p)
  \/ \E p \in Everyone, capability \in Capabilities : Send(p, capability)
  \/ \E p \in Everyone, e \in sent : Handle(p, e)
  \/ \E p, q \in Everyone : Age(p, q)

Spec == Init /\ [][Next]_vars

(* The relay brings the host's last word to every guest at least once. *)
FairSpec ==
  Spec /\ \A g \in Guests : WF_vars(\E e \in sent : e.kind = "control" /\ Handle(g, e))

-----------------------------------------------------------------------------
(* Properties. *)

(* The state has the shape the code gives it. *)
TypeOK ==
  /\ state \in [Everyone -> States] /\ self \in [Everyone -> Roles]
  /\ members \in [Everyone -> [Everyone -> Roles \cup {Unknown}]]
  /\ seen \in [Everyone -> [Everyone -> Nat]]
  /\ recent \in [Everyone -> [Everyone -> 0..RateLimit]]
  /\ outgoing \in [Everyone -> Nat]
  /\ sent \subseteq Envelopes
  /\ surfaced \in [Everyone -> [Everyone -> Seq(Nat)]]
  /\ left \in [Everyone -> [Everyone -> Nat]] /\ throttled \subseteq Everyone

(* However the relay repeats and reorders, a participant is given the      *)
(* frames of another at most once each, and in the order they were sent.   *)
OnceInOrder ==
  \A p, q \in Everyone : \A i, j \in DOMAIN surfaced[p][q] :
    i < j => surfaced[p][q][i] < surfaced[p][q][j]

(* Whoever left is no member, though its join may come late or twice: only *)
(* a join it sent after that leave brings it back (handle drops an older   *)
(* one as a replay).                                                       *)
Rejoined(p, q) ==
  \E e \in sent : e.from = q /\ e.kind = "join" /\ e.sequence \in (left[p][q] + 1)..seen[p][q]

LeftIsOut ==
  \A p, q \in Everyone :
    left[p][q] # 0 /\ members[p][q] # Unknown => Rejoined(p, q)

(* A role that was granted is lost by demotion or removal, or by leaving   *)
(* or joining anew, but never because the relay repeats an old join.       *)
RolesHold ==
  [][\A q \in Guests :
       members[Host][q] = "contributor" /\ members'[Host][q] # "contributor" =>
         (\E role \in Granted : Promote(q, role)) \/ Remove(q) \/ seen'[Host][q] > seen[Host][q]]_vars

(* The end the host announces is the end for every guest that is there,    *)
(* members of each other or not, unless it comes above the rate limit, or  *)
(* after something the host sent later.                                    *)
EndReaches ==
  LET Missed(g) == \E e \in sent : /\ e.kind = "control"
                                   /\ g \in throttled \/ e.sequence < seen[g][e.from]
  IN  \A g \in Guests :
        (\E e \in sent : e.kind = "control") /\ state[g] = "in" ~>
           state[g] # "in" \/ Missed(g)

-----------------------------------------------------------------------------
(* What does not hold (see the README). *)

(* A guest knows who it hears, as long as that one has not left. *)
SendersKnown ==
  \A g \in Guests, q \in Everyone :
    seen[g][q] # 0 /\ left[g][q] = 0
      /\ (\E e \in sent : e.from = q /\ e.sequence = 1 /\ e.kind = "join")
    => members[g][q] # Unknown

(* Who was removed comes back only by joining after that. *)
RemovedStaysOut ==
  [][\A q \in Guests : members[Host][q] = Unknown /\ members'[Host][q] # Unknown =>
       ~ \E e \in sent : e.from = q /\ e.sequence < outgoing[q] /\ e.sequence = seen'[Host][q]]_vars
=============================================================================
