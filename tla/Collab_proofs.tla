---------------------------- MODULE Collab_proofs ----------------------------
(***************************************************************************)
(* Theorems about a shared session, for any guests, any rate and any       *)
(* number of envelopes that the relay loses, repeats and reorders.         *)
(***************************************************************************)
EXTENDS Collab, SequenceTheorems, TLAPS

(* Numbers come from outgoing.                                             *)
Numbered == \A e \in sent : e.sequence <= outgoing[e.from]

(* What a participant was given of another is in order, and seen says how  *)
(* far it got.                                                             *)
GivenIsSeen ==
  \A p, q \in Everyone : \A i \in DOMAIN surfaced[p][q] : surfaced[p][q][i] <= seen[p][q]

(* The last leave that was handled was seen, and is not the participant's  *)
(* own.                                                                    *)
LeaveIsSeen ==
  \A p, q \in Everyone : left[p][q] <= seen[p][q] /\ (left[p][q] # 0 => p # q)

Inv == TypeOK /\ Numbered /\ GivenIsSeen /\ OnceInOrder /\ LeaveIsSeen /\ LeftIsOut

-----------------------------------------------------------------------------
(* Numbers in sequences. *)

LEMMA NumberIn ==
  ASSUME NEW s \in Seq(Nat), NEW i \in DOMAIN s
  PROVE  s[i] \in Nat
  BY ElementOfSeq

LEMMA Between ==
  ASSUME NEW k \in Nat, NEW m \in Nat, NEW n \in Nat, k <= m, m < n
  PROVE  k < n
  OBVIOUS

(* A sequence stays increasing when something greater is appended. *)
LEMMA AppendIncreasing ==
  ASSUME NEW s \in Seq(Nat), NEW n \in Nat, \A i \in DOMAIN s : s[i] < n,
         \A i, j \in DOMAIN s : i < j => s[i] < s[j]
  PROVE  /\ Append(s, n) \in Seq(Nat)
         /\ \A i \in DOMAIN Append(s, n) : Append(s, n)[i] <= n
         /\ \A i, j \in DOMAIN Append(s, n) : i < j => Append(s, n)[i] < Append(s, n)[j]
<1>1. \A i \in DOMAIN s : s[i] \in Nat
  BY NumberIn
<1>2. /\ Append(s, n) \in Seq(Nat) /\ Len(s) \in Nat /\ DOMAIN s = 1..Len(s)
      /\ DOMAIN Append(s, n) = 1..(Len(s) + 1)
      /\ \A i \in DOMAIN s : Append(s, n)[i] = s[i]
      /\ Append(s, n)[Len(s) + 1] = n
  OBVIOUS
<1>3. \A i \in DOMAIN Append(s, n) : i \in DOMAIN s \/ i = Len(s) + 1
  BY <1>2
<1> QED
  BY <1>1, <1>2, <1>3

-----------------------------------------------------------------------------
LEMMA InitInv == Init => Inv
<1> SUFFICES ASSUME Init PROVE Inv
  OBVIOUS
<1>1. Host \in Everyone /\ RateLimit \in Nat \ {0}
  BY CollabAssumption DEF Everyone
<1>2. TypeOK
  BY <1>1 DEF Init, TypeOK, States, Roles
<1>3. \A p, q \in Everyone : surfaced[p][q] = << >>
  BY DEF Init
<1>4. GivenIsSeen /\ OnceInOrder
  BY <1>3 DEF GivenIsSeen, OnceInOrder
<1>5. \A p, q \in Everyone : left[p][q] = 0 /\ seen[p][q] = 0
  BY DEF Init
<1> QED
  BY <1>2, <1>4, <1>5 DEF Inv, Init, Numbered, LeaveIsSeen, LeftIsOut

(* An envelope is one, and its sender another participant. *)
LEMMA EnvelopeFields ==
  ASSUME TypeOK, NEW e \in sent
  PROVE  /\ e \in Envelopes /\ e.from \in Everyone /\ e.sequence \in Nat \ {0}
  BY DEF TypeOK, Envelopes

(* The calls of a participant that send something. *)
LEMMA TransmitKeeps ==
  ASSUME Inv, NEW p \in Everyone, NEW kind \in {"join", "leave", "control"} \cup Capabilities,
         Transmit(p, kind)
  PROVE  /\ outgoing' \in [Everyone -> Nat] /\ sent' \subseteq Envelopes
         /\ Numbered'
         /\ \E n \in Nat \ {0} :
              /\ sent' = sent \cup {[from |-> p, sequence |-> n, kind |-> kind]}
              /\ \A e \in sent : e.from = p => e.sequence < n
<1> DEFINE n == outgoing[p] + 1
           new == [from |-> p, sequence |-> n, kind |-> kind]
<1>0. TypeOK /\ Numbered
  BY DEF Inv
<1>1. /\ outgoing \in [Everyone -> Nat] /\ n \in Nat \ {0}
      /\ outgoing' = [outgoing EXCEPT ![p] = n] /\ sent' = sent \cup {new}
  BY <1>0 DEF TypeOK, Transmit
<1>2. new \in Envelopes
  BY <1>1 DEF Envelopes
<1>3. \A e \in sent : /\ e.from \in Everyone /\ e.sequence \in Nat
                      /\ e.sequence <= outgoing[e.from]
  BY <1>0, EnvelopeFields DEF Numbered
<1>4. \A e \in sent : e.from = p => e.sequence < n
  BY <1>1, <1>3
<1>5. ASSUME NEW e \in sent' PROVE e.sequence <= outgoing'[e.from]
  <2>1. CASE e = new
    BY <1>1, <2>1
  <2>2. CASE e \in sent
    <3>1. outgoing[e.from] \in Nat /\ outgoing'[e.from] \in Nat
          /\ outgoing[e.from] <= outgoing'[e.from]
      BY <1>1, <1>3, <2>2
    <3> QED
      BY <1>3, <2>2, <3>1
  <2> QED
    BY <1>1, <1>5, <2>1, <2>2
<1> QED
  BY <1>0, <1>1, <1>2, <1>4, <1>5 DEF Numbered, TypeOK

LEMMA CallStep ==
  ASSUME Inv, NEW p \in Everyone,
         \/ Join(p) \/ Leave(p) \/ End(p)
         \/ \E capability \in Capabilities : Send(p, capability)
  PROVE  Inv'
<1>0. TypeOK /\ Numbered /\ GivenIsSeen /\ OnceInOrder /\ LeaveIsSeen /\ LeftIsOut
  BY DEF Inv
<1>1. PICK kind \in {"join", "leave", "control"} \cup Capabilities :
        /\ Transmit(p, kind)
        /\ state' \in [Everyone -> States]
        /\ UNCHANGED <<self, knownVars, pastVars>>
  <2>1. CASE Join(p)
    BY <1>0, <2>1 DEF Join, hereVars, TypeOK
  <2>2. CASE Leave(p)
    BY <1>0, <2>2 DEF Leave, Ending, TypeOK, States
  <2>3. CASE End(p)
    BY <1>0, <2>3 DEF End, Ending, TypeOK, States
  <2>4. ASSUME NEW c \in Capabilities, Send(p, c)
        PROVE  Transmit(p, c) /\ state' = state /\ UNCHANGED <<self, knownVars, pastVars>>
    BY <2>4 DEF Send, hereVars
  <2> QED
    BY <1>0, <2>1, <2>2, <2>3, <2>4 DEF TypeOK
<1>2. PICK n \in Nat \ {0} :
        /\ outgoing' \in [Everyone -> Nat] /\ sent' \subseteq Envelopes /\ Numbered'
        /\ sent' = sent \cup {[from |-> p, sequence |-> n, kind |-> kind]}
        /\ \A e \in sent : e.from = p => e.sequence < n
  BY <1>1, TransmitKeeps
<1>3. TypeOK'
  BY <1>0, <1>1, <1>2 DEF TypeOK, knownVars, pastVars
<1>4. LeaveIsSeen' /\ LeftIsOut'
  BY <1>0, <1>1, <1>2 DEF LeaveIsSeen, LeftIsOut, Rejoined, knownVars, pastVars
<1>5. GivenIsSeen' /\ OnceInOrder'
  BY <1>0, <1>1 DEF GivenIsSeen, OnceInOrder, knownVars, pastVars
<1> QED
  BY <1>2, <1>3, <1>4, <1>5 DEF Inv

(* What the program does without the relay. *)
LEMMA LocalStep ==
  ASSUME Inv,
         \/ \E g \in Guests : Enter(g) \/ Tell(g) \/ Remove(g)
         \/ \E g \in Guests, role \in Granted : Promote(g, role)
         \/ \E p \in Everyone : Over(p)
         \/ \E p, q \in Everyone : Age(p, q)
         \/ UNCHANGED vars
  PROVE  Inv'
<1>0. /\ TypeOK /\ Numbered /\ GivenIsSeen /\ OnceInOrder /\ LeaveIsSeen /\ LeftIsOut
      /\ Host \in Everyone /\ Guests \subseteq Everyone /\ Host \notin Guests
  BY CollabAssumption DEF Inv, Everyone
<1>1. UNCHANGED <<seen, relayVars, pastVars>>
  BY DEF Enter, Tell, Remove, Promote, Over, Age, vars, knownVars, hereVars
<1>2. state' \in [Everyone -> States]
  <2>1. CASE UNCHANGED state
    BY <1>0, <2>1 DEF TypeOK
  <2>2. CASE \E g \in Guests : Enter(g)
    BY <1>0, <2>2 DEF Enter, TypeOK, States
  <2>3. CASE \E p \in Everyone : Over(p)
    BY <1>0, <2>3 DEF Over, TypeOK, States
  <2> QED
    BY <2>1, <2>2, <2>3 DEF Tell, Remove, Promote, Age, vars, hereVars
<1>3. /\ members' \in [Everyone -> [Everyone -> Roles \cup {Unknown}]]
      /\ self' \in [Everyone -> Roles]
      /\ \A p, q \in Everyone : p # q /\ members[p][q] = Unknown => members'[p][q] = Unknown
  <2>1. CASE UNCHANGED <<members, self>>
    BY <1>0, <2>1 DEF TypeOK
  <2>2. ASSUME NEW g \in Guests, Tell(g)
        PROVE  /\ members' \in [Everyone -> [Everyone -> Roles \cup {Unknown}]]
               /\ self' \in [Everyone -> Roles]
               /\ \A p, q \in Everyone : p # q /\ members[p][q] = Unknown => members'[p][q] = Unknown
    <3>1. members[Host][g] \in Roles
      BY <1>0, <2>2 DEF Tell, TypeOK
    <3> QED
      BY <1>0, <2>2, <3>1 DEF Tell, TypeOK
  <2>3. ASSUME NEW g \in Guests, Remove(g) \/ \E role \in Granted : Promote(g, role)
        PROVE  /\ members' \in [Everyone -> [Everyone -> Roles \cup {Unknown}]]
               /\ self' \in [Everyone -> Roles]
               /\ \A p, q \in Everyone : p # q /\ members[p][q] = Unknown => members'[p][q] = Unknown
    <3>1. /\ members[Host][g] # Unknown /\ self' = self /\ g \in Everyone
          /\ \E to \in Roles \cup {Unknown} : members' = [members EXCEPT ![Host][g] = to]
      BY <1>0, <2>3 DEF Remove, Promote, hereVars, Granted, Roles
    <3>2. members \in [Everyone -> [Everyone -> Roles \cup {Unknown}]] /\ self \in [Everyone -> Roles]
      BY <1>0 DEF TypeOK
    <3> QED
      BY <1>0, <3>1, <3>2
  <2> QED
    BY <2>1, <2>2, <2>3 DEF Enter, Over, Age, vars, hereVars, knownVars
<1>4. recent' \in [Everyone -> [Everyone -> 0..RateLimit]]
  <2>1. CASE UNCHANGED recent
    BY <1>0, <2>1 DEF TypeOK
  <2>2. ASSUME NEW p \in Everyone, NEW q \in Everyone, Age(p, q)
        PROVE  recent' \in [Everyone -> [Everyone -> 0..RateLimit]]
    <3>1. recent[p][q] \in 0..RateLimit /\ recent[p][q] > 0 /\ RateLimit \in Nat
      BY <1>0, <2>2, CollabAssumption DEF Age, TypeOK
    <3>2. recent[p][q] - 1 \in 0..RateLimit
      BY <3>1
    <3> QED
      BY <1>0, <2>2, <3>2 DEF Age, TypeOK
  <2> QED
    BY <2>1, <2>2 DEF Enter, Tell, Remove, Promote, Over, vars, hereVars, knownVars
<1>5. TypeOK'
  BY <1>0, <1>1, <1>2, <1>3, <1>4 DEF TypeOK, relayVars, pastVars
<1>6. Numbered' /\ GivenIsSeen' /\ OnceInOrder'
  BY <1>0, <1>1 DEF Numbered, GivenIsSeen, OnceInOrder, relayVars, pastVars
<1>7. LeaveIsSeen'
  BY <1>0, <1>1 DEF LeaveIsSeen, pastVars
<1>8. LeftIsOut'
  <2> SUFFICES ASSUME NEW p \in Everyone, NEW q \in Everyone,
                      left'[p][q] # 0, members'[p][q] # Unknown
               PROVE  Rejoined(p, q)'
    BY DEF LeftIsOut
  <2>1. left[p][q] # 0 /\ p # q
    BY <1>0, <1>1 DEF LeaveIsSeen, pastVars
  <2>2. members[p][q] # Unknown
    BY <1>3, <2>1
  <2>3. Rejoined(p, q)
    BY <1>0, <2>1, <2>2 DEF LeftIsOut
  <2> QED
    BY <1>1, <2>3 DEF Rejoined, relayVars, pastVars
<1> QED
  BY <1>5, <1>6, <1>7, <1>8 DEF Inv

-----------------------------------------------------------------------------
(* An envelope that is let in. *)
LEMMA OpenedEffect ==
  ASSUME Inv, NEW p \in Everyone, NEW e \in sent, NEW kinds, Opened(p, e, kinds)
  PROVE  /\ e.from \in Everyone /\ e.from # p /\ e.sequence \in Nat \ {0}
         /\ state[p] \in {"in", "ending"} /\ e.kind \in kinds
         /\ recent' \in [Everyone -> [Everyone -> 0..RateLimit]]
         /\ seen' \in [Everyone -> [Everyone -> Nat]]
         /\ seen'[p][e.from] = e.sequence /\ seen[p][e.from] < e.sequence
         /\ \A a, b \in Everyone : /\ seen[a][b] <= seen'[a][b]
                                   /\ <<a, b>> # <<p, e.from>> => seen'[a][b] = seen[a][b]
<1>0. TypeOK
  BY DEF Inv
<1>1. e.from \in Everyone /\ e.sequence \in Nat \ {0}
  BY <1>0, EnvelopeFields
<1>2. /\ state[p] \in {"in", "ending"} /\ e.from # p /\ e.kind \in kinds
      /\ recent[p][e.from] < RateLimit /\ seen[p][e.from] < e.sequence
      /\ recent' = [recent EXCEPT ![p][e.from] = @ + 1]
      /\ seen' = [seen EXCEPT ![p][e.from] = e.sequence]
  BY <1>0, <1>1 DEF Opened, Listens, WithinRate, Fresh, TypeOK
<1>a. recent \in [Everyone -> [Everyone -> 0..RateLimit]]
  BY <1>0 DEF TypeOK
<1>3. recent[p][e.from] + 1 \in 0..RateLimit
  <2>1. recent[p][e.from] \in 0..RateLimit
    BY ONLY <1>1, <1>a, p \in Everyone
  <2>2. RateLimit \in Nat
    BY CollabAssumption
  <2> QED
    BY ONLY <1>2, <2>1, <2>2
<1>4. recent' \in [Everyone -> [Everyone -> 0..RateLimit]]
  BY ONLY <1>1, <1>2, <1>3, <1>a, p \in Everyone
<1>5. seen' \in [Everyone -> [Everyone -> Nat]] /\ seen'[p][e.from] = e.sequence
  BY <1>0, <1>1, <1>2 DEF TypeOK
<1>6. \A a, b \in Everyone : <<a, b>> # <<p, e.from>> => seen'[a][b] = seen[a][b]
  BY <1>0, <1>1, <1>2 DEF TypeOK
<1>7. \A a, b \in Everyone : seen[a][b] \in Nat
  BY <1>0 DEF TypeOK
<1> QED
  BY <1>1, <1>2, <1>4, <1>5, <1>6, <1>7

LEMMA OpenedStep ==
  ASSUME Inv, NEW p \in Everyone, NEW e \in sent,
         Joined(p, e) \/ Left(p, e) \/ Ended(p, e) \/ Frame(p, e)
  PROVE  Inv'
<1>0. TypeOK /\ Numbered /\ GivenIsSeen /\ OnceInOrder /\ LeaveIsSeen /\ LeftIsOut
  BY DEF Inv
<1>1. /\ e.from \in Everyone /\ e.from # p /\ e.sequence \in Nat \ {0}
      /\ state[p] \in {"in", "ending"}
      /\ recent' \in [Everyone -> [Everyone -> 0..RateLimit]]
      /\ seen' \in [Everyone -> [Everyone -> Nat]]
      /\ seen'[p][e.from] = e.sequence /\ seen[p][e.from] < e.sequence
      /\ \A a, b \in Everyone : /\ seen[a][b] <= seen'[a][b]
                                /\ <<a, b>> # <<p, e.from>> => seen'[a][b] = seen[a][b]
  BY OpenedEffect DEF Joined, Left, Ended, Frame
<1>2. UNCHANGED <<self, relayVars, throttled>>
  BY DEF Joined, Left, Ended, Frame, Opened
<1>3. state' \in [Everyone -> States]
  <2>1. state' = state \/ state' = [state EXCEPT ![p] = "ended"]
    BY DEF Joined, Left, Ended, Frame
  <2> QED
    BY <1>0, <2>1 DEF TypeOK, States
<1> DEFINE old == surfaced[p][e.from]
<1>a. /\ surfaced \in [Everyone -> [Everyone -> Seq(Nat)]]
      /\ seen \in [Everyone -> [Everyone -> Nat]]
      /\ members \in [Everyone -> [Everyone -> Roles \cup {Unknown}]]
      /\ left \in [Everyone -> [Everyone -> Nat]]
  BY <1>0 DEF TypeOK
<1>b. \A a, b \in Everyone : surfaced[a][b] \in Seq(Nat)
  BY <1>a
<1>d. \A a, b \in Everyone : seen[a][b] \in Nat
  BY <1>a
<1>c. \A f \in sent : f.sequence \in Nat
  BY <1>0, EnvelopeFields
<1>4. surfaced' \in [Everyone -> [Everyone -> Seq(Nat)]] /\ GivenIsSeen' /\ OnceInOrder'
  <2>1. CASE surfaced' = surfaced
    <3>1. GivenIsSeen'
      <4> SUFFICES ASSUME NEW a \in Everyone, NEW b \in Everyone, NEW i \in DOMAIN surfaced[a][b]
                   PROVE  surfaced[a][b][i] <= seen'[a][b]
        BY <2>1 DEF GivenIsSeen
      <4>1. surfaced[a][b][i] <= seen[a][b] /\ seen[a][b] <= seen'[a][b]
        BY <1>0, <1>1 DEF GivenIsSeen
      <4>2. surfaced[a][b][i] \in Nat /\ seen[a][b] \in Nat /\ seen'[a][b] \in Nat
        BY <1>1, <1>a, <1>b, NumberIn
      <4> QED
        BY <4>1, <4>2
    <3> QED
      BY <1>0, <1>a, <2>1, <3>1 DEF OnceInOrder
  <2>2. CASE surfaced' = [surfaced EXCEPT ![p][e.from] = Append(@, e.sequence)]
    <3>1. old \in Seq(Nat)
      BY <1>1, <1>b
    <3>2. \A i \in DOMAIN old : old[i] < e.sequence
      <4> SUFFICES ASSUME NEW i \in DOMAIN old PROVE old[i] < e.sequence
        OBVIOUS
      <4>1. old[i] \in Nat
        BY ONLY <3>1, i \in DOMAIN old, NumberIn
      <4>2. old[i] <= seen[p][e.from]
        BY <1>0, <1>1 DEF GivenIsSeen
      <4>3. seen[p][e.from] \in Nat
        BY <1>1, <1>d
      <4> QED
        BY ONLY <1>1, <4>1, <4>2, <4>3, Between
    <3>3. \A i, j \in DOMAIN old : i < j => old[i] < old[j]
      BY <1>0, <1>1 DEF OnceInOrder
    <3>4. /\ Append(old, e.sequence) \in Seq(Nat)
          /\ \A i \in DOMAIN Append(old, e.sequence) : Append(old, e.sequence)[i] <= e.sequence
          /\ \A i, j \in DOMAIN Append(old, e.sequence) :
               i < j => Append(old, e.sequence)[i] < Append(old, e.sequence)[j]
      BY <1>1, <3>1, <3>2, <3>3, AppendIncreasing
    <3>5. /\ surfaced' \in [Everyone -> [Everyone -> Seq(Nat)]]
          /\ surfaced'[p][e.from] = Append(old, e.sequence)
          /\ \A a, b \in Everyone : <<a, b>> # <<p, e.from>> => surfaced'[a][b] = surfaced[a][b]
      BY <1>1, <1>a, <2>2, <3>4
    <3> HIDE DEF old
    <3>6. ASSUME NEW a \in Everyone, NEW b \in Everyone
          PROVE  /\ \A i \in DOMAIN surfaced'[a][b] : surfaced'[a][b][i] <= seen'[a][b]
                 /\ \A i, j \in DOMAIN surfaced'[a][b] :
                      i < j => surfaced'[a][b][i] < surfaced'[a][b][j]
      <4>1. CASE <<a, b>> = <<p, e.from>>
        <5>1. a = p /\ b = e.from
          BY <4>1
        <5>2. surfaced'[a][b] = Append(old, e.sequence) /\ seen'[a][b] = e.sequence
          BY <1>1, <3>5, <5>1
        <5> QED
          BY ONLY <3>4, <5>2
      <4>2. CASE <<a, b>> # <<p, e.from>>
        <5>1. surfaced'[a][b] = surfaced[a][b] /\ seen'[a][b] = seen[a][b]
          BY <1>1, <3>5, <4>2
        <5>2. /\ \A i \in DOMAIN surfaced[a][b] : surfaced[a][b][i] <= seen[a][b]
              /\ \A i, j \in DOMAIN surfaced[a][b] :
                   i < j => surfaced[a][b][i] < surfaced[a][b][j]
          BY <1>0 DEF GivenIsSeen, OnceInOrder
        <5> QED
          BY ONLY <5>1, <5>2
      <4> QED
        BY <4>1, <4>2
    <3> QED
      BY <3>5, <3>6 DEF GivenIsSeen, OnceInOrder
  <2> QED
    BY <2>1, <2>2 DEF Joined, Left, Ended, Frame
<1>5. Numbered'
  BY <1>0, <1>2 DEF Numbered, relayVars
(* What is changed is what p knows of the sender. *)
<1>6. /\ members' \in [Everyone -> [Everyone -> Roles \cup {Unknown}]]
      /\ left' \in [Everyone -> [Everyone -> Nat]]
      /\ \A a, b \in Everyone : <<a, b>> # <<p, e.from>> =>
           members'[a][b] = members[a][b] /\ left'[a][b] = left[a][b]
      /\ \/ /\ left'[p][e.from] = left[p][e.from]
            /\ members'[p][e.from] = members[p][e.from] \/ e.kind = "join"
         \/ /\ left'[p][e.from] = e.sequence
            /\ members'[p][e.from] = Unknown
  <2>1. CASE Joined(p, e)
    <3>1. /\ e.kind = "join" /\ left' = left
          /\ members' = [members EXCEPT ![p][e.from] = IF e.from = Host THEN "host" ELSE "viewer"]
      BY <2>1, OpenedEffect DEF Joined
    <3> QED
      BY <1>1, <1>a, <3>1 DEF Roles
  <2>2. CASE Left(p, e)
    BY <1>1, <1>a, <2>2 DEF Left
  <2>3. CASE Ended(p, e) \/ Frame(p, e)
    BY <1>1, <1>a, <2>3 DEF Ended, Frame
  <2> QED
    BY <2>1, <2>2, <2>3
<1>7. TypeOK'
  BY <1>0, <1>1, <1>2, <1>3, <1>4, <1>6 DEF TypeOK, relayVars
<1>8. ASSUME NEW a \in Everyone, NEW b \in Everyone
      PROVE  /\ left'[a][b] <= seen'[a][b] /\ (left'[a][b] # 0 => a # b)
             /\ left'[a][b] # 0 /\ members'[a][b] # Unknown => Rejoined(a, b)'
  <2>0. /\ left[a][b] \in Nat /\ seen[a][b] \in Nat /\ left[a][b] <= seen[a][b]
        /\ left[a][b] # 0 => a # b
        /\ left[a][b] # 0 /\ members[a][b] # Unknown => Rejoined(a, b)
        /\ seen[a][b] <= seen'[a][b] /\ seen'[a][b] \in Nat
    BY <1>0, <1>1, <1>a DEF LeaveIsSeen, LeftIsOut
  <2>1. Rejoined(a, b) /\ left'[a][b] = left[a][b] => Rejoined(a, b)'
    <3> SUFFICES ASSUME Rejoined(a, b), left'[a][b] = left[a][b] PROVE Rejoined(a, b)'
      OBVIOUS
    <3>1. PICK f \in sent : f.from = b /\ f.kind = "join" /\ f.sequence \in (left[a][b] + 1)..seen[a][b]
      BY DEF Rejoined
    <3>2. f.sequence \in (left'[a][b] + 1)..seen'[a][b]
      BY <2>0, <3>1, <1>c
    <3>3. f \in sent'
      BY <1>2 DEF relayVars
    <3> QED
      BY <3>1, <3>2, <3>3 DEF Rejoined
  <2>2. CASE <<a, b>> # <<p, e.from>>
    BY <1>1, <1>6, <2>0, <2>1, <2>2
  <2>3. CASE <<a, b>> = <<p, e.from>>
    <3>0. a = p /\ b = e.from /\ seen'[a][b] = e.sequence /\ seen[a][b] < e.sequence
          /\ e.sequence \in Nat \ {0} /\ a # b
      BY <1>1, <2>3
    <3>1. CASE left'[a][b] = e.sequence /\ members'[a][b] = Unknown
      BY <3>0, <3>1
    <3>2. CASE left'[a][b] = left[a][b] /\ members'[a][b] = members[a][b]
      BY <2>0, <2>1, <3>0, <3>2
    <3>3. CASE left'[a][b] = left[a][b] /\ e.kind = "join"
      <4>1. e.sequence \in (left'[a][b] + 1)..seen'[a][b]
        BY <2>0, <3>0, <3>3
      <4>2. Rejoined(a, b)'
        BY <1>2, <3>0, <3>3, <4>1 DEF Rejoined, relayVars
      <4> QED
        BY <2>0, <3>0, <3>3, <4>2
    <3> QED
      BY <1>6, <3>0, <3>1, <3>2, <3>3
  <2> QED
    BY <2>2, <2>3
<1>9. LeaveIsSeen' /\ LeftIsOut'
  BY <1>8 DEF LeaveIsSeen, LeftIsOut
<1> QED
  BY <1>4, <1>5, <1>7, <1>9 DEF Inv

(* Envelopes that are dropped. *)
LEMMA DroppedStep ==
  ASSUME Inv, NEW p \in Everyone, NEW e \in sent, TooFast(p, e) \/ Replay(p, e)
  PROVE  Inv'
<1>0. TypeOK /\ Numbered /\ GivenIsSeen /\ OnceInOrder /\ LeaveIsSeen /\ LeftIsOut
  BY DEF Inv
<1>1. e.from \in Everyone
  BY <1>0, EnvelopeFields
<1>2. UNCHANGED <<hereVars, members, seen, relayVars, surfaced, left>>
  BY DEF TooFast, Replay, knownVars, pastVars
<1>3. recent' \in [Everyone -> [Everyone -> 0..RateLimit]] /\ throttled' \subseteq Everyone
  <2>1. CASE TooFast(p, e)
    BY <1>0, <2>1 DEF TooFast, TypeOK, knownVars
  <2>2. CASE Replay(p, e)
    <3>0. recent \in [Everyone -> [Everyone -> 0..RateLimit]] /\ RateLimit \in Nat
          /\ recent[p][e.from] < RateLimit
      BY <1>0, <2>2, CollabAssumption DEF Replay, WithinRate, TypeOK
    <3>1. recent[p][e.from] + 1 \in 0..RateLimit
      BY ONLY <1>1, <3>0, p \in Everyone
    <3> QED
      BY <1>0, <1>1, <2>2, <3>1 DEF Replay, TypeOK, pastVars
  <2> QED
    BY <2>1, <2>2
<1>4. TypeOK'
  BY <1>0, <1>2, <1>3 DEF TypeOK, hereVars, relayVars
<1> QED
  BY <1>0, <1>2, <1>4
     DEF Inv, Numbered, GivenIsSeen, OnceInOrder, LeaveIsSeen, LeftIsOut, Rejoined, hereVars, relayVars

LEMMA Inductive == (Init => Inv) /\ (Inv /\ [Next]_vars => Inv')
<1> SUFFICES ASSUME Inv, [Next]_vars PROVE Inv'
  BY InitInv
<1>1. CASE \E p \in Everyone, e \in sent : Handle(p, e)
  BY <1>1, OpenedStep, DroppedStep DEF Handle
<1>2. CASE \E p \in Everyone : \/ Join(p) \/ Leave(p) \/ End(p)
                               \/ \E capability \in Capabilities : Send(p, capability)
  BY <1>2, CallStep
<1>3. CASE \/ \E g \in Guests : Enter(g) \/ Tell(g) \/ Remove(g)
           \/ \E g \in Guests, role \in Granted : Promote(g, role)
           \/ \E p \in Everyone : Over(p)
           \/ \E p, q \in Everyone : Age(p, q)
           \/ UNCHANGED vars
  BY <1>3, LocalStep
<1> QED
  BY <1>1, <1>2, <1>3 DEF Next

-----------------------------------------------------------------------------
(* The state keeps the shape session.ts gives it. *)
THEOREM TypeCorrect == Spec => []TypeOK
<1>1. Inv => TypeOK
  BY DEF Inv
<1> QED
  BY <1>1, Inductive, PTL DEF Spec

(* However the relay repeats and reorders what it carries, handle gives a  *)
(* participant the frames of another once at most, in the order of sending. *)
THEOREM OnceInOrderTheorem == Spec => []OnceInOrder
<1>1. Inv => OnceInOrder
  BY DEF Inv
<1> QED
  BY <1>1, Inductive, PTL DEF Spec

(* A join that comes late, or again, brings back nobody who has left:      *)
(* handle has seen the higher number of the leave.  Who is a member all    *)
(* the same has joined after that (join looks at nothing).                 *)
THEOREM LeftIsOutTheorem == Spec => []LeftIsOut
<1>1. Inv => LeftIsOut
  BY DEF Inv
<1> QED
  BY <1>1, Inductive, PTL DEF Spec

(* What the host granted is taken back by the host, or lost with a later   *)
(* envelope of the guest's own, and never with an old one (handle).        *)
THEOREM RolesHoldTheorem == Spec => RolesHold
<1> DEFINE Held ==
      \A q \in Guests :
        members[Host][q] = "contributor" /\ members'[Host][q] # "contributor" =>
          (\E role \in Granted : Promote(q, role)) \/ Remove(q) \/ seen'[Host][q] > seen[Host][q]
<1>1. Inv /\ [Next]_vars => [Held]_vars
  <2> SUFFICES ASSUME Inv, Next, NEW q \in Guests,
                      members[Host][q] = "contributor", members'[Host][q] # "contributor"
               PROVE  (\E role \in Granted : Promote(q, role)) \/ Remove(q)
                      \/ seen'[Host][q] > seen[Host][q]
    OBVIOUS
  <2>0. /\ TypeOK /\ Host \in Everyone /\ Guests \subseteq Everyone
        /\ Host \notin Guests /\ q # Host
    BY CollabAssumption DEF Inv, Everyone
  <2>1. members' # members
    OBVIOUS
  <2>2. CASE \E g \in Guests, role \in Granted : Promote(g, role)
    <3>1. PICK g \in Guests, role \in Granted : Promote(g, role)
      BY <2>2
    <3>2. g = q
      BY <2>0, <3>1 DEF Promote, TypeOK
    <3> QED
      BY <3>1, <3>2
  <2>3. CASE \E g \in Guests : Remove(g)
    <3>1. PICK g \in Guests : Remove(g)
      BY <2>3
    <3>2. g = q
      BY <2>0, <3>1 DEF Remove, TypeOK
    <3> QED
      BY <3>1, <3>2
  <2>4. CASE \E g \in Guests : Tell(g)
    BY <2>0, <2>4 DEF Tell, TypeOK
  <2>5. ASSUME NEW p \in Everyone, NEW e \in sent, Joined(p, e) \/ Left(p, e)
        PROVE  seen'[Host][q] > seen[Host][q]
    <3>1. /\ e.from \in Everyone /\ e.sequence \in Nat
          /\ seen'[p][e.from] = e.sequence /\ seen[p][e.from] < e.sequence
      BY <2>5, OpenedEffect DEF Joined, Left
    <3>2. p = Host /\ e.from = q
      <4>1. \E to : members' = [members EXCEPT ![p][e.from] = to]
        BY <2>5 DEF Joined, Left
      <4>2. members \in [Everyone -> [Everyone -> Roles \cup {Unknown}]]
        BY <2>0 DEF TypeOK
      <4> QED
        BY <2>0, <3>1, <4>1, <4>2
    <3>3. seen[Host][q] \in Nat
      BY <2>0 DEF TypeOK
    <3> QED
      BY <3>1, <3>2, <3>3
  <2> QED
    BY <2>1, <2>2, <2>3, <2>4, <2>5
       DEF Next, Handle, TooFast, Replay, Ended, Frame, Enter, Join, Leave, End, Over, Send, Age,
           knownVars
<1> QED
  BY <1>1, Inductive, PTL DEF Spec, RolesHold
=============================================================================
