--------------------------- MODULE Gateway_proofs ---------------------------
(***************************************************************************)
(* Theorems about the chat gateway, for any number of accounts,            *)
(* identities, codes and messages.  The identity store and the router      *)
(* share only the index: what is proved of one leaves the other alone.     *)
(***************************************************************************)
EXTENDS Gateway, SequenceTheorems, TLAPS

Message == [account : Accounts, place : Places, identity : Identities \cup {Nobody}]

RouterType ==
  /\ messages \in Seq(Message)
  /\ queued \in [Identities -> Seq(Nat)]
  /\ current \in [Identities -> Nat]
  /\ asker \in [Identities -> Accounts]
  /\ stuck \subseteq Identities

LEMMA MessageAt == RouterType => \A n \in DOMAIN messages : messages[n] \in Message
  BY DEF RouterType

-----------------------------------------------------------------------------
(* The identity store. *)

StoreType ==
  /\ known \subseteq Identities
  /\ index \in [Accounts -> Identities \cup {Nobody}]
  /\ accounts \in [Identities -> SUBSET Accounts]
  /\ pending \subseteq [code : Codes, identity : Identities]
  /\ failures \in [Accounts -> 0..MaxFailures] /\ total \in Nat
  /\ file \in Stores
  /\ used \subseteq Codes \X Accounts

(* Codes that can be redeemed are told apart from each other and from      *)
(* those that have been.                                                   *)
CodesApart ==
  /\ \A p, q \in pending : p.code = q.code => p = q
  /\ \A p \in pending, u \in used : p.code # u[1]

StoreInv == StoreType /\ AccountsAgree /\ CodesApart /\ CodeOnce

LEMMA IndexedAgrees ==
  ASSUME NEW held \in [Identities -> SUBSET Accounts],
         \A i, j \in Identities : i # j => held[i] \cap held[j] = {}
  PROVE  /\ Indexed(held) \in [Accounts -> Identities \cup {Nobody}]
         /\ \A a \in Accounts, i \in Identities : Indexed(held)[a] = i <=> a \in held[i]
<1>1. ASSUME NEW a \in Accounts, NEW j \in Identities, a \in held[j]
      PROVE  Indexed(held)[a] = j
  <2>1. (CHOOSE i \in Identities : a \in held[i]) = j
    BY <1>1
  <2> QED
    BY <1>1, <2>1 DEF Indexed
<1>2. ASSUME NEW a \in Accounts, ~ \E j \in Identities : a \in held[j]
      PROVE  Indexed(held)[a] = Nobody
  BY <1>2 DEF Indexed
<1>3. Indexed(held) = [a \in Accounts |-> Indexed(held)[a]]
  BY DEF Indexed
<1> QED
  BY <1>1, <1>2, <1>3, GatewayAssumption

LEMMA StoreInit == Init => StoreInv
<1> SUFFICES ASSUME Init PROVE StoreInv
  OBVIOUS
<1>1. /\ accounts \in [Identities -> SUBSET Accounts]
      /\ \A i, j \in Identities : i # j => accounts[i] \cap accounts[j] = {}
      /\ index = Indexed(accounts)
      /\ file = [known |-> known, accounts |-> accounts]
      /\ known \subseteq Identities
  BY DEF Init
<1>2. AccountsAgree /\ index \in [Accounts -> Identities \cup {Nobody}]
  BY <1>1, IndexedAgrees DEF AccountsAgree
<1>3. failures \in [Accounts -> 0..MaxFailures]
  BY GatewayAssumption DEF Init
<1>4. StoreType
  BY <1>1, <1>2, <1>3 DEF Init, StoreType, Stores
<1> QED
  BY <1>2, <1>4 DEF Init, StoreInv, CodesApart, CodeOnce

(* The store after an account is linked by a code... *)
LEMMA RedeemStore ==
  ASSUME StoreInv, NEW a \in Accounts, NEW code \in Codes, index[a] = Nobody,
         Redeem(a, code)
  PROVE  StoreInv'
<1>0. GatewayAssumption!1 /\ Nobody \notin Identities
  BY GatewayAssumption
<1>1. CASE UNCHANGED storeVars
  BY <1>1 DEF storeVars, StoreInv, StoreType, AccountsAgree, CodesApart, CodeOnce
<1>2. ASSUME NEW p \in pending, p.code = code, Redeemed(a, p) PROVE StoreInv'
  <2>1. p.identity \in Identities /\ p.code \in Codes
    BY DEF StoreInv, StoreType
  <2>2. \A i \in Identities : a \notin accounts[i]
    BY <1>0 DEF StoreInv, AccountsAgree
  <2>3. /\ index' \in [Accounts -> Identities \cup {Nobody}]
        /\ accounts' \in [Identities -> SUBSET Accounts]
        /\ \A b \in Accounts, i \in Identities : index'[b] = i <=> b \in accounts'[i]
    BY <1>2, <2>1, <2>2 DEF Redeemed, StoreInv, StoreType, AccountsAgree
  <2>4. \A i, j \in Identities : i # j => accounts'[i] \cap accounts'[j] = {}
    BY <2>3
  <2>5. file' = [known |-> known, accounts |-> accounts'] /\ file' \in Stores
    BY <1>2, <2>3 DEF Redeemed, Save, Stores, StoreInv, StoreType
  <2>6. AccountsAgree'
    BY <2>3, <2>4, <2>5 DEF AccountsAgree
  <2>7. failures' \in [Accounts -> 0..MaxFailures]
    BY <1>0, <1>2 DEF Redeemed, StoreInv, StoreType
  <2>8. StoreType'
    BY <1>2, <2>1, <2>3, <2>5, <2>7 DEF Redeemed, StoreInv, StoreType
  <2>9. used' = used \cup {<<p.code, a>>} /\ pending' = pending \ {p}
    BY <1>2 DEF Redeemed
  <2>10. CodesApart'
    BY <2>9 DEF StoreInv, CodesApart
  <2>11. CodeOnce'
    BY <2>9 DEF StoreInv, CodesApart, CodeOnce
  <2> QED
    BY <2>6, <2>8, <2>10, <2>11 DEF StoreInv
<1>3. ASSUME failures[a] < MaxFailures, Mistaken(a) PROVE StoreInv'
  <2>1. failures[a] \in Nat /\ MaxFailures \in Nat
    BY <1>0 DEF StoreInv, StoreType
  <2>2. failures' \in [Accounts -> 0..MaxFailures] /\ total' \in Nat
    BY <1>3, <2>1 DEF Mistaken, StoreInv, StoreType
  <2>3. pending' \subseteq pending
    BY <1>3 DEF Mistaken
  <2> QED
    BY <1>3, <2>2, <2>3 DEF Mistaken, StoreInv, StoreType, AccountsAgree, CodesApart, CodeOnce
<1> QED
  BY <1>1, <1>2, <1>3 DEF Redeem

(* ...and after it is unlinked. *)
LEMMA UnlinkStore ==
  ASSUME StoreInv, NEW a \in Accounts, Unlink(a)
  PROVE  StoreInv'
<1>1. /\ index' \in [Accounts -> Identities \cup {Nobody}]
      /\ accounts' \in [Identities -> SUBSET Accounts]
      /\ \A b \in Accounts, i \in Identities : index'[b] = i <=> b \in accounts'[i]
  BY GatewayAssumption DEF Unlink, StoreInv, StoreType, AccountsAgree
<1>2. \A i, j \in Identities : i # j => accounts'[i] \cap accounts'[j] = {}
  BY <1>1
<1>3. file' = [known |-> known, accounts |-> accounts'] /\ file' \in Stores
  BY <1>1 DEF Unlink, Save, Stores, StoreInv, StoreType
<1> QED
  BY <1>1, <1>2, <1>3 DEF Unlink, StoreInv, StoreType, AccountsAgree, CodesApart, CodeOnce

LEMMA StoreStep == StoreInv /\ RouterType /\ [Next]_vars => StoreInv'
<1> SUFFICES ASSUME StoreInv, RouterType, [Next]_vars PROVE StoreInv'
  OBVIOUS
<1> USE DEF StoreInv
<1>0. Nobody \notin Identities
  BY GatewayAssumption
<1>1. ASSUME UNCHANGED storeVars PROVE StoreInv'
  BY <1>1 DEF storeVars, StoreType, AccountsAgree, CodesApart, CodeOnce
<1>2. ASSUME NEW i \in Identities, NEW code \in Codes, Issue(i, code) PROVE StoreInv'
  <2>1. \A j, k \in Identities : j # k => accounts[j] \cap accounts[k] = {}
    BY DEF AccountsAgree, StoreType
  <2>2. file' = file \/ file' = [known |-> known', accounts |-> accounts]
    BY <1>2 DEF Issue, Save
  <2>3. known' \subseteq Identities
    BY <1>2 DEF Issue, StoreType
  <2>4. file' \in Stores /\ AccountsAgree'
    BY <1>2, <2>1, <2>2, <2>3 DEF Issue, AccountsAgree, StoreType, Stores
  <2>5. CodesApart' /\ CodeOnce'
    BY <1>2 DEF Issue, CodesApart, CodeOnce
  <2> QED
    BY <1>2, <2>3, <2>4, <2>5 DEF Issue, StoreType
<1>3. ASSUME NEW p \in pending, Expire(p) PROVE StoreInv'
  BY <1>3 DEF Expire, StoreType, AccountsAgree, CodesApart, CodeOnce
<1>4. CASE Forgive
  <2>1. failures' \in [Accounts -> 0..MaxFailures] /\ total' \in Nat
    BY <1>4, GatewayAssumption DEF Forgive, StoreType
  <2>2. UNCHANGED <<known, index, accounts, pending, file, used>>
    BY <1>4 DEF Forgive
  <2> QED
    BY <2>1, <2>2 DEF StoreType, AccountsAgree, CodesApart, CodeOnce
<1>5. ASSUME NEW i \in Identities, CliLink(i) PROVE StoreInv'
  <2>1. /\ file' \in Stores /\ file'.accounts = file.accounts
        /\ UNCHANGED <<known, index, accounts, pending, failures, total, used>>
    BY <1>5 DEF CliLink, StoreType, Stores
  <2> QED
    BY <2>1 DEF StoreType, AccountsAgree, CodesApart, CodeOnce
<1>6. ASSUME NEW a \in Accounts, CliUnlink(a) PROVE StoreInv'
  <2>1. /\ file' \in Stores
        /\ \A i \in Identities : file'.accounts[i] \subseteq file.accounts[i]
        /\ UNCHANGED <<known, index, accounts, pending, failures, total, used>>
    BY <1>6 DEF CliUnlink, StoreType, Stores
  <2> QED
    BY <2>1 DEF StoreType, AccountsAgree, CodesApart, CodeOnce
<1>7. ASSUME NEW a \in Accounts, NEW code \in Codes, SendCode(a, code) PROVE StoreInv'
  BY <1>7, RedeemStore DEF SendCode
<1>8. ASSUME NEW a \in Accounts, SendUnlink(a) PROVE StoreInv'
  BY <1>8, UnlinkStore DEF SendUnlink
<1>9. ASSUME NEW a \in Accounts, Say(a) \/ SendVoice(a) \/ SendCancel(a) PROVE StoreInv'
  BY <1>1, <1>9 DEF Say, SendVoice, SendCancel
<1>10. ASSUME NEW m \in DOMAIN messages, Transcribed(m) PROVE StoreInv'
  <2>1. messages[m].account \in Accounts
    BY MessageAt DEF Message
  <2> QED
    BY <1>1, <1>10, <2>1, RedeemStore DEF Transcribed
<1>11. ASSUME NEW i \in Identities, Drain(i) \/ ReplyRefused(i) \/ DrainFails(i)
       PROVE  StoreInv'
  BY <1>1, <1>11 DEF Drain, TurnEnds, Replied, ReplyRefused, DrainFails
<1>12. CASE Restart
  <2>1. /\ file.accounts \in [Identities -> SUBSET Accounts]
        /\ file.known \subseteq Identities
        /\ \A i, j \in Identities : i # j => file.accounts[i] \cap file.accounts[j] = {}
    BY DEF StoreType, Stores, AccountsAgree
  <2>2. /\ index' \in [Accounts -> Identities \cup {Nobody}]
        /\ \A a \in Accounts, i \in Identities : index'[a] = i <=> a \in accounts'[i]
    BY <1>12, <2>1, IndexedAgrees DEF Restart
  <2>3. failures' \in [Accounts -> 0..MaxFailures]
    BY <1>12, GatewayAssumption DEF Restart
  <2> QED
    BY <1>12, <2>1, <2>2, <2>3 DEF Restart, StoreType, AccountsAgree, CodesApart, CodeOnce
<1>13. CASE UNCHANGED vars
  BY <1>1, <1>13 DEF vars
<1> QED
  BY <1>2, <1>3, <1>4, <1>5, <1>6, <1>7, <1>8, <1>9, <1>10, <1>11, <1>12, <1>13 DEF Next

-----------------------------------------------------------------------------
(* The router. *)

Is(n, i, places) ==
  n \in DOMAIN messages /\ messages[n].identity = i /\ messages[n].place \in places

(* Who drain is at is being worked on, and who is in a queue waits, for    *)
(* that identity, and in one place of the queue.                           *)
Tracked ==
  \A i \in Identities :
    /\ current[i] # 0 => Is(current[i], i, Working)
    /\ \A k \in DOMAIN queued[i] : Is(queued[i][k], i, {"queued"})
    /\ \A k, l \in DOMAIN queued[i] : queued[i][k] = queued[i][l] => k = l

RouterInv == RouterType /\ OneTurn /\ Tracked /\ NoneForgotten

LEMMA RouterInit == Init => RouterInv
<1> SUFFICES ASSUME Init PROVE RouterInv
  OBVIOUS
<1>1. (CHOOSE a \in Accounts : TRUE) \in Accounts
  BY GatewayAssumption
<1>2. /\ messages = <<>> /\ stuck = {}
      /\ queued = [i \in Identities |-> <<>>] /\ current = [i \in Identities |-> 0]
      /\ asker = [i \in Identities |-> CHOOSE a \in Accounts : TRUE]
  BY DEF Init
<1>3. RouterType
  BY <1>1, <1>2 DEF RouterType
<1> QED
  BY <1>2, <1>3 DEF RouterInv, OneTurn, Tracked, NoneForgotten

(* Moving one message leaves the others, and whom it is for, alone. *)
PlaceSet(list, m, place) == [list EXCEPT ![m].place = place]

LEMMA PlaceSetKeeps ==
  ASSUME NEW list \in Seq(Message), NEW m \in DOMAIN list, NEW place \in Places
  PROVE  /\ PlaceSet(list, m, place) \in Seq(Message)
         /\ DOMAIN PlaceSet(list, m, place) = DOMAIN list
         /\ PlaceSet(list, m, place)[m].place = place
         /\ PlaceSet(list, m, place)[m].identity = list[m].identity
         /\ \A n \in DOMAIN list \ {m} : PlaceSet(list, m, place)[n] = list[n]
<1> DEFINE new == [list[m] EXCEPT !.place = place]
           moved == PlaceSet(list, m, place)
<1>0. list[m] \in Message
  OBVIOUS
<1>1. new \in Message /\ new.place = place /\ new.identity = list[m].identity
  BY <1>0 DEF Message
<1>2. moved = [list EXCEPT ![m] = new]
  BY DEF PlaceSet
<1> HIDE DEF new, moved
<1>3. moved \in Seq(Message) /\ DOMAIN moved = DOMAIN list
  BY <1>1, <1>2
<1>4. moved[m] = new /\ \A n \in DOMAIN list \ {m} : moved[n] = list[n]
  BY <1>2
<1> QED
  BY <1>1, <1>3, <1>4 DEF moved

(* A step that moves messages within the places of those drain is at, or   *)
(* outside of those the router keeps track of.                             *)
LEMMA Elsewhere ==
  ASSUME RouterInv, UNCHANGED turnVars,
         messages' \in Seq(Message), DOMAIN messages \subseteq DOMAIN messages',
         \A n \in DOMAIN messages :
           \/ messages'[n] = messages[n]
           \/ /\ messages[n].place \in Working /\ messages'[n].place \in Working
              /\ messages'[n].identity = messages[n].identity
           \/ /\ messages[n].place = "transcribing"
              /\ messages'[n].place \notin Working \cup {"queued"},
         \A n \in DOMAIN messages' \ DOMAIN messages :
           messages'[n].place \notin Working \cup {"queued"}
  PROVE  RouterInv'
<1> USE DEF RouterInv, turnVars
<1>1. RouterType' /\ NoneForgotten'
  BY DEF RouterType, NoneForgotten
<1>2. OneTurn'
  BY DEF OneTurn, Working, ToSet
<1>3. ASSUME NEW n, NEW i \in Identities, NEW places \in {Working, {"queued"}},
             Is(n, i, places)
      PROVE  Is(n, i, places)'
  BY <1>3 DEF Is, Working
<1>4. Tracked'
  BY <1>3 DEF Tracked
<1> QED
  BY <1>1, <1>2, <1>4

(* enqueue, of a message that has come in or has been transcribed. *)
LEMMA EnqueueStep ==
  ASSUME RouterInv, NEW i \in Identities, NEW list \in Seq(Message),
         NEW m \in DOMAIN list, DOMAIN list = DOMAIN messages \cup {m},
         \A n \in DOMAIN messages \ {m} : list[n] = messages[n],
         m \in DOMAIN messages => messages[m].place = "transcribing",
         Enqueue(m, i, list)
  PROVE  RouterInv'
<1> USE DEF RouterInv
<1>0. m \in Nat /\ m # 0 /\ list[m] \in Message /\ i # Nobody
  <2>1. DOMAIN list = 1..Len(list) /\ Len(list) \in Nat
    OBVIOUS
  <2>2. m \in Nat /\ m # 0
    BY <2>1
  <2>3. list[m] \in Message
    OBVIOUS
  <2>4. i # Nobody
    BY GatewayAssumption
  <2> QED
    BY <2>2, <2>3, <2>4
<1>1. /\ \A j \in Identities : current[j] # m
      /\ \A j \in Identities : m \notin ToSet(queued[j])
  BY <1>0 DEF Tracked, Is, Working, ToSet
<1>2. ASSUME NEW place \in {"running", "queued"},
             messages' = [list EXCEPT ![m].place = place, ![m].identity = i]
      PROVE  /\ messages' \in Seq(Message) /\ DOMAIN messages' = DOMAIN messages \cup {m}
             /\ messages'[m].place = place /\ messages'[m].identity = i
             /\ \A n \in DOMAIN messages \ {m} : messages'[n] = messages[n]
  <2> DEFINE moved == [list[m] EXCEPT !.place = place, !.identity = i]
  <2>1. moved \in Message /\ moved.place = place /\ moved.identity = i
    BY <1>0 DEF Message, Places
  <2>2. messages' = [list EXCEPT ![m] = moved]
    BY <1>2
  <2> HIDE DEF moved
  <2>3. messages' \in Seq(Message) /\ DOMAIN messages' = DOMAIN list
    BY <2>1, <2>2
  <2>4. messages'[m] = moved /\ \A n \in DOMAIN list \ {m} : messages'[n] = list[n]
    BY <2>2
  <2> QED
    BY <2>1, <2>3, <2>4
<1>3. CASE current[i] = 0 /\ Begin(m, i, list)
  <2>1. /\ messages' = [list EXCEPT ![m].place = "running", ![m].identity = i]
        /\ current' = [current EXCEPT ![i] = m]
        /\ asker' = [asker EXCEPT ![i] = list[m].account]
        /\ UNCHANGED <<queued, stuck>>
    BY <1>3 DEF Begin
  <2>2. /\ messages' \in Seq(Message) /\ DOMAIN messages' = DOMAIN messages \cup {m}
        /\ messages'[m].place = "running" /\ messages'[m].identity = i
        /\ \A n \in DOMAIN messages \ {m} : messages'[n] = messages[n]
    BY <1>2, <2>1
  <2>a. list[m].account \in Accounts
    BY <1>0 DEF Message
  <2>b. /\ current' \in [Identities -> Nat] /\ current'[i] = m
        /\ \A j \in Identities \ {i} : current'[j] = current[j]
    BY <1>0, <2>1 DEF RouterType
  <2>3. RouterType'
    BY <2>1, <2>2, <2>a, <2>b DEF RouterType
  <2>c. ASSUME NEW n \in DOMAIN messages, n # m, messages[n].place \in Working
        PROVE  /\ messages[n].identity \in Identities \ {i}
               /\ current[messages[n].identity] = n
    <3>1. n # 0 /\ messages[n] \in Message
      BY DEF RouterType
    <3>2. messages[n].identity \in Identities /\ current[messages[n].identity] = n
      BY <2>c, <3>1 DEF OneTurn, Message
    <3> QED
      BY <1>3, <3>1, <3>2
  <2>4. OneTurn'
    <3> SUFFICES ASSUME NEW n \in DOMAIN messages'
                 PROVE  /\ messages'[n].place \in Working
                             => /\ messages'[n].identity # Nobody
                                /\ current'[messages'[n].identity] = n
                        /\ messages'[n].place = "queued"
                             => /\ messages'[n].identity # Nobody
                                /\ n \in ToSet(queued'[messages'[n].identity])
      BY DEF OneTurn
    <3>1. CASE n = m
      BY <1>0, <2>2, <2>b, <3>1 DEF Working
    <3>2. CASE n # m
      <4>1. n \in DOMAIN messages /\ messages'[n] = messages[n]
        BY <2>2, <3>2
      <4> QED
        BY <1>0, <2>1, <2>b, <2>c, <3>2, <4>1, GatewayAssumption DEF OneTurn
    <3> QED
      BY <3>1, <3>2
  <2>5. Tracked'
    <3>1. Is(m, i, Working)'
      BY <2>2 DEF Is, Working
    <3>2. \A j \in Identities \ {i} : current[j] # 0 => Is(current[j], j, Working)'
      BY <1>1, <2>2, <2>b DEF Tracked, Is
    <3>3. \A j \in Identities : \A k \in DOMAIN queued[j] : Is(queued[j][k], j, {"queued"})'
      BY <1>1, <2>1, <2>2 DEF Tracked, Is, ToSet
    <3> QED
      BY <2>1, <2>b, <3>1, <3>2, <3>3 DEF Tracked, Is
  <2>6. NoneForgotten'
    BY <1>0, <2>1 DEF NoneForgotten, RouterType
  <2> QED
    BY <2>3, <2>4, <2>5, <2>6
<1>4. ASSUME current[i] # 0,
             messages' = [list EXCEPT ![m].place = "queued", ![m].identity = i],
             queued' = [queued EXCEPT ![i] = Append(@, m)],
             UNCHANGED <<current, asker, stuck>>
      PROVE  RouterInv'
  <2>2. /\ messages' \in Seq(Message) /\ DOMAIN messages' = DOMAIN messages \cup {m}
        /\ messages'[m].place = "queued" /\ messages'[m].identity = i
        /\ \A n \in DOMAIN messages \ {m} : messages'[n] = messages[n]
    BY <1>2, <1>4
  <2>3. /\ queued[i] \in Seq(Nat) /\ queued'[i] = Append(queued[i], m)
        /\ \A j \in Identities \ {i} : queued'[j] = queued[j]
        /\ queued' \in [Identities -> Seq(Nat)]
    BY <1>0, <1>4 DEF RouterType
  <2>4. /\ DOMAIN queued'[i] = 1..(Len(queued[i]) + 1)
        /\ DOMAIN queued[i] = 1..Len(queued[i]) /\ Len(queued[i]) \in Nat
        /\ queued'[i][Len(queued[i]) + 1] = m
        /\ \A k \in DOMAIN queued[i] : queued'[i][k] = queued[i][k]
    BY <2>3
  <2>5. ToSet(queued'[i]) = ToSet(queued[i]) \cup {m}
    BY <2>4 DEF ToSet
  <2>6. RouterType'
    BY <1>4, <2>2, <2>3 DEF RouterType
  <2>7. OneTurn'
    BY <1>0, <1>1, <1>4, <2>2, <2>3, <2>5 DEF OneTurn, Working
  <2>8. \A j \in Identities : current'[j] # 0 => Is(current[j], j, Working)'
    BY <1>1, <1>4, <2>2 DEF Tracked, Is
  <2>9. ASSUME NEW j \in Identities, NEW k \in DOMAIN queued'[j]
        PROVE  Is(queued[j][k], j, {"queued"})'
    <3>1. CASE k \in DOMAIN queued[j] /\ queued'[j][k] = queued[j][k]
      BY <1>1, <2>2, <3>1 DEF Tracked, Is, ToSet
    <3>2. CASE j = i /\ queued'[j][k] = m
      BY <2>2, <3>2 DEF Is
    <3>3. CASE j # i
      BY <2>3, <3>1, <3>3
    <3>4. CASE j = i
      BY <2>4, <3>1, <3>2, <3>4
    <3> QED
      BY <3>3, <3>4
  <2>12. \A j \in Identities : \A k, l \in DOMAIN queued'[j] :
           queued'[j][k] = queued'[j][l] => k = l
    <3>1. ASSUME NEW j \in Identities \ {i}
          PROVE  \A k, l \in DOMAIN queued'[j] : queued'[j][k] = queued'[j][l] => k = l
      BY <2>3 DEF Tracked
    <3>2. \A k \in DOMAIN queued[i] : queued[i][k] # m
      BY <1>1 DEF ToSet
    <3>3. \A k, l \in DOMAIN queued[i] : queued[i][k] = queued[i][l] => k = l
      BY DEF Tracked
    <3>4. \A k, l \in DOMAIN queued'[i] : queued'[i][k] = queued'[i][l] => k = l
      BY <2>4, <3>2, <3>3
    <3> QED
      BY <3>1, <3>4
  <2>13. Tracked'
    BY <1>4, <2>8, <2>9, <2>12 DEF Tracked
  <2>14. NoneForgotten'
    BY <1>4, <2>3 DEF NoneForgotten
  <2> QED
    BY <2>6, <2>7, <2>13, <2>14
<1> QED
  BY <1>3, <1>4 DEF Enqueue
(* A drain that is over, with nothing waiting or for good. *)
LEMMA OverStep ==
  ASSUME RouterInv, NEW i \in Identities, current[i] # 0,
         NEW place \in {"done", "lost"}, messages' = Moved(current[i], place),
         current' = [current EXCEPT ![i] = 0], UNCHANGED <<queued, asker>>,
         stuck \subseteq stuck', stuck' \subseteq Identities,
         queued[i] = <<>> \/ i \in stuck'
  PROVE  RouterInv'
<1> USE DEF RouterInv
<1>1. current[i] \in DOMAIN messages /\ messages[current[i]].identity = i
  BY DEF Tracked, Is
<1>2. /\ messages' \in Seq(Message) /\ DOMAIN messages' = DOMAIN messages
      /\ messages'[current[i]].place = place
      /\ \A n \in DOMAIN messages \ {current[i]} : messages'[n] = messages[n]
  <2>1. messages \in Seq(Message) /\ place \in Places
    BY DEF RouterType, Places
  <2>2. messages' = PlaceSet(messages, current[i], place)
    BY DEF Moved, PlaceSet
  <2> QED
    BY <1>1, <2>1, <2>2, PlaceSetKeeps
<1>3. /\ current' \in [Identities -> Nat] /\ current'[i] = 0
      /\ \A j \in Identities \ {i} : current'[j] = current[j]
  BY DEF RouterType
<1>4. RouterType' /\ NoneForgotten'
  BY <1>2, <1>3 DEF RouterType, NoneForgotten
<1>5. OneTurn'
  <2>1. ASSUME NEW n \in DOMAIN messages, n # current[i], messages[n].place \in Working
        PROVE  /\ messages[n].identity # Nobody
               /\ current'[messages[n].identity] = n
    <3>1. messages[n].identity # Nobody /\ current[messages[n].identity] = n
      BY <2>1 DEF OneTurn
    <3>2. messages[n].identity \in Identities
      BY <3>1, MessageAt DEF Message
    <3> QED
      BY <1>3, <2>1, <3>1, <3>2
  <2> QED
    BY <1>2, <2>1 DEF OneTurn, Working
<1>6. Tracked'
  <2>1. \A j \in Identities \ {i} : current[j] # 0 => Is(current[j], j, Working)'
    BY <1>1, <1>2, <1>3 DEF Tracked, Is
  <2>2. \A j \in Identities : \A k \in DOMAIN queued[j] : Is(queued[j][k], j, {"queued"})'
    BY <1>2 DEF Tracked, Is, Working
  <2> QED
    BY <1>3, <2>1, <2>2 DEF Tracked, Is
<1> QED
  BY <1>4, <1>5, <1>6

(* drain goes on with the message that has waited longest. *)
LEMMA NextStep ==
  ASSUME RouterInv, NEW i \in Identities, current[i] # 0, queued[i] # <<>>,
         messages' = [Moved(current[i], "done") EXCEPT ![Head(queued[i])].place = "running"],
         current' = [current EXCEPT ![i] = Head(queued[i])],
         queued' = [queued EXCEPT ![i] = Tail(@)], UNCHANGED <<asker, stuck>>
  PROVE  RouterInv'
<1> USE DEF RouterInv
<1> PICK h : h = Head(queued[i])
  OBVIOUS
<1> PICK c : c = current[i]
  OBVIOUS
<1>0. /\ queued[i] \in Seq(Nat) /\ h = queued[i][1] /\ 1 \in DOMAIN queued[i]
      /\ DOMAIN queued[i] = 1..Len(queued[i]) /\ Len(queued[i]) \in Nat
      /\ DOMAIN Tail(queued[i]) = 1..(Len(queued[i]) - 1)
      /\ \A k \in 1..(Len(queued[i]) - 1) : Tail(queued[i])[k] = queued[i][k + 1]
      /\ Tail(queued[i]) \in Seq(Nat) /\ h \in Nat
  <2>1. queued[i] \in Seq(Nat)
    BY DEF RouterType
  <2> QED
    BY <2>1
<1>1. c \in DOMAIN messages /\ messages[c].identity = i /\ messages[c].place \in Working
  BY DEF Tracked, Is
<1>2. h \in DOMAIN messages /\ messages[h].identity = i /\ messages[h].place = "queued"
  BY <1>0 DEF Tracked, Is
<1>3. h # c /\ h # 0
  BY <1>1, <1>2 DEF Working, RouterType
<1>4. /\ messages' \in Seq(Message) /\ DOMAIN messages' = DOMAIN messages
      /\ messages'[c].place = "done"
      /\ messages'[h].place = "running" /\ messages'[h].identity = i
      /\ \A n \in DOMAIN messages \ {c, h} : messages'[n] = messages[n]
  <2> DEFINE done == PlaceSet(messages, c, "done")
  <2>1. messages \in Seq(Message) /\ "done" \in Places /\ "running" \in Places
    BY DEF RouterType, Places
  <2>2. /\ done \in Seq(Message) /\ DOMAIN done = DOMAIN messages
        /\ done[c].place = "done"
        /\ \A n \in DOMAIN messages \ {c} : done[n] = messages[n]
    BY <1>1, <2>1, PlaceSetKeeps
  <2>3. messages' = PlaceSet(done, h, "running")
    BY DEF Moved, PlaceSet
  <2> HIDE DEF done
  <2>4. /\ messages' \in Seq(Message) /\ DOMAIN messages' = DOMAIN done
        /\ messages'[h].place = "running" /\ messages'[h].identity = done[h].identity
        /\ \A n \in DOMAIN done \ {h} : messages'[n] = done[n]
    <3>1. done \in Seq(Message) /\ h \in DOMAIN done
      BY <1>2, <2>2
    <3> DEFINE moved == PlaceSet(done, h, "running")
    <3>2. /\ moved \in Seq(Message) /\ DOMAIN moved = DOMAIN done
          /\ moved[h].place = "running" /\ moved[h].identity = done[h].identity
          /\ \A n \in DOMAIN done \ {h} : moved[n] = done[n]
      BY <2>1, <3>1, PlaceSetKeeps
    <3> HIDE DEF moved
    <3> QED
      BY <2>3, <3>2 DEF moved
  <2> QED
    BY <1>1, <1>2, <1>3, <2>2, <2>4
<1>5. /\ current' \in [Identities -> Nat] /\ current'[i] = h
      /\ \A j \in Identities \ {i} : current'[j] = current[j]
  BY <1>0 DEF RouterType
<1>6. /\ queued' \in [Identities -> Seq(Nat)] /\ queued'[i] = Tail(queued[i])
      /\ \A j \in Identities \ {i} : queued'[j] = queued[j]
  BY <1>0 DEF RouterType
<1>7. RouterType'
  BY <1>4, <1>5, <1>6 DEF RouterType
<1>8. NoneForgotten'
  BY <1>3, <1>5, <1>6 DEF NoneForgotten
<1>9. OneTurn'
  <2>1. ASSUME NEW n \in DOMAIN messages \ {c, h}, messages[n].place \in Working
        PROVE  /\ messages[n].identity # Nobody
               /\ current'[messages[n].identity] = n
    <3>1. messages[n].identity # Nobody /\ current[messages[n].identity] = n
      BY <2>1 DEF OneTurn
    <3>2. messages[n].identity \in Identities
      BY <3>1, MessageAt DEF Message
    <3> QED
      BY <1>5, <2>1, <3>1, <3>2
  <2>2. ASSUME NEW n \in DOMAIN messages \ {c, h}, messages[n].place = "queued"
        PROVE  /\ messages[n].identity # Nobody
               /\ n \in ToSet(queued'[messages[n].identity])
    <3>1. /\ messages[n].identity # Nobody /\ n \in ToSet(queued[messages[n].identity])
          /\ messages[n].identity \in Identities
      BY <2>2, MessageAt DEF OneTurn, Message
    <3>2. CASE messages[n].identity = i
      <4>1. PICK k \in DOMAIN queued[i] : n = queued[i][k]
        BY <3>1, <3>2 DEF ToSet
      <4>2. k # 1
        BY <1>0, <4>1
      <4>3. k - 1 \in DOMAIN queued'[i] /\ queued'[i][k - 1] = n
        BY <1>0, <1>6, <4>1, <4>2
      <4> QED
        BY <3>1, <3>2, <4>3 DEF ToSet
    <3> QED
      BY <1>6, <3>1, <3>2
  <2>3. Nobody # i
    BY GatewayAssumption
  <2> QED
    BY <1>4, <1>5, <2>1, <2>2, <2>3 DEF OneTurn, Working
<1>10. Tracked'
  <2>1. Is(h, i, Working)'
    BY <1>2, <1>4 DEF Is, Working
  <2>2. \A j \in Identities \ {i} : current[j] # 0 => Is(current[j], j, Working)'
    BY <1>1, <1>2, <1>4, <1>5 DEF Tracked, Is
  <2>3. ASSUME NEW j \in Identities \ {i}, NEW k \in DOMAIN queued'[j]
        PROVE  Is(queued[j][k], j, {"queued"})'
    <3>1. queued'[j][k] = queued[j][k] /\ k \in DOMAIN queued[j]
      BY <1>6
    <3>2. Is(queued[j][k], j, {"queued"})
      BY <3>1 DEF Tracked
    <3>3. queued[j][k] \notin {c, h}
      BY <1>1, <1>2, <3>2 DEF Is
    <3> QED
      BY <1>4, <3>1, <3>2, <3>3 DEF Is
  <2>4. ASSUME NEW k \in DOMAIN queued'[i]
        PROVE  Is(queued[i][k], i, {"queued"})'
    <3>1. /\ queued'[i][k] = queued[i][k + 1]
          /\ k + 1 \in DOMAIN queued[i] /\ k + 1 # 1
      BY <1>0, <1>6
    <3>2. queued[i][k + 1] # h
      BY <1>0, <3>1 DEF Tracked
    <3>3. Is(queued[i][k + 1], i, {"queued"})
      BY <3>1 DEF Tracked
    <3> QED
      BY <1>1, <1>4, <3>1, <3>2, <3>3 DEF Is, Working
  <2>5. \A k, l \in DOMAIN queued'[i] : queued'[i][k] = queued'[i][l] => k = l
    <3>1. \A k, l \in DOMAIN queued[i] : queued[i][k] = queued[i][l] => k = l
      BY DEF Tracked
    <3> QED
      BY <1>0, <1>6, <3>1
  <2> QED
    BY <1>5, <1>6, <2>1, <2>2, <2>3, <2>4, <2>5 DEF Tracked, Is
<1> QED
  BY <1>7, <1>8, <1>9, <1>10
(* /cancel, and a restart: the queue is empty, and nothing waits. *)
LEMMA Rewritten ==
  ASSUME RouterType, NEW list, DOMAIN list = DOMAIN messages,
         \A n \in DOMAIN messages : list[n] \in Message, list = [n \in DOMAIN list |-> list[n]]
  PROVE  list \in Seq(Message)
<1>1. /\ messages \in Seq(Message)
      /\ DOMAIN messages = 1..Len(messages) /\ Len(messages) \in Nat
  BY DEF RouterType
<1>2. list \in [1..Len(messages) -> Message]
  BY <1>1
<1> QED
  BY <1>1, <1>2, SeqDef

LEMMA CancelStep ==
  ASSUME RouterInv, index \in [Accounts -> Identities \cup {Nobody}],
         NEW a \in Accounts, SendCancel(a)
  PROVE  RouterInv'
<1> USE DEF RouterInv
<1> DEFINE i == index[a]
           new == [account |-> a, place |-> "done", identity |-> Nobody]
           list == [m \in DOMAIN messages |->
                      IF m \in ToSet(queued[i])
                      THEN [messages[m] EXCEPT !.place = "dropped"] ELSE messages[m]]
<1>1. /\ i \in Identities /\ messages' = Append(list, new)
      /\ queued' = [queued EXCEPT ![i] = <<>>] /\ UNCHANGED <<current, asker, stuck>>
  BY DEF SendCancel
<1>2. /\ new \in Message
      /\ DOMAIN list = DOMAIN messages
      /\ \A n \in DOMAIN messages :
           /\ n \in ToSet(queued[i]) => list[n].place = "dropped" /\ list[n] \in Message
           /\ n \notin ToSet(queued[i]) => list[n] = messages[n]
  BY MessageAt DEF Message, Places
<1>3. list = [n \in DOMAIN list |-> list[n]]
  OBVIOUS
<1> HIDE DEF list, new
<1>4. list \in Seq(Message)
  BY <1>2, <1>3, MessageAt, Rewritten
<1>5. /\ messages' \in Seq(Message)
      /\ DOMAIN messages' = DOMAIN messages \cup {Len(list) + 1}
      /\ messages'[Len(list) + 1] = new /\ Len(list) + 1 \notin DOMAIN messages
      /\ \A n \in DOMAIN messages : messages'[n] = list[n]
  BY <1>1, <1>2, <1>4
<1>6. /\ queued' \in [Identities -> Seq(Nat)] /\ queued'[i] = <<>>
      /\ \A j \in Identities \ {i} : queued'[j] = queued[j]
  BY <1>1 DEF RouterType
<1>7. RouterType' /\ NoneForgotten'
  BY <1>1, <1>5, <1>6 DEF RouterType, NoneForgotten
<1>8. ASSUME NEW n \in DOMAIN messages', messages'[n].place \in Working \cup {"queued"}
      PROVE  /\ n \in DOMAIN messages /\ messages'[n] = messages[n]
             /\ n \notin ToSet(queued[i])
  <2>1. n # Len(list) + 1
    BY <1>5, <1>8 DEF new, Working
  <2>2. n \in DOMAIN messages /\ messages'[n] = list[n]
    BY <1>5, <2>1
  <2> QED
    BY <1>2, <1>8, <2>2 DEF Working
<1>9. OneTurn'
  <2>1. ASSUME NEW n \in DOMAIN messages', messages'[n].place \in Working
        PROVE  /\ messages'[n].identity # Nobody
               /\ current'[messages'[n].identity] = n
    BY <1>1, <1>8, <2>1 DEF OneTurn
  <2>2. ASSUME NEW n \in DOMAIN messages', messages'[n].place = "queued"
        PROVE  /\ messages'[n].identity # Nobody
               /\ n \in ToSet(queued'[messages'[n].identity])
    <3>1. n \in DOMAIN messages /\ messages'[n] = messages[n] /\ n \notin ToSet(queued[i])
      BY <1>8, <2>2
    <3>2. /\ messages[n].identity # Nobody /\ n \in ToSet(queued[messages[n].identity])
          /\ messages[n].identity \in Identities
      BY <2>2, <3>1, MessageAt DEF OneTurn, Message
    <3> QED
      BY <1>6, <3>1, <3>2
  <2> QED
    BY <2>1, <2>2 DEF OneTurn
<1>10. Tracked'
  <2>1. ASSUME NEW n, NEW j \in Identities, NEW places \in {Working, {"queued"}},
               n \notin ToSet(queued[i]), Is(n, j, places)
        PROVE  Is(n, j, places)'
    BY <1>2, <1>5, <2>1 DEF Is
  <2>2. \A j \in Identities : current[j] # 0 => current[j] \notin ToSet(queued[i])
    BY <1>1 DEF Tracked, Is, Working, ToSet
  <2>3. \A j \in Identities \ {i} : \A k \in DOMAIN queued[j] :
          queued[j][k] \notin ToSet(queued[i])
    BY <1>1 DEF Tracked, Is, ToSet
  <2> QED
    BY <1>1, <1>6, <2>1, <2>2, <2>3 DEF Tracked, Is
<1> QED
  BY <1>7, <1>9, <1>10

LEMMA RestartStep == RouterInv /\ Restart => RouterInv'
<1> SUFFICES ASSUME RouterInv, Restart PROVE RouterInv'
  OBVIOUS
<1> USE DEF RouterInv
<1>1. /\ messages' = [m \in DOMAIN messages |->
                        IF messages[m].place \in {"done", "dropped"} THEN messages[m]
                        ELSE [messages[m] EXCEPT !.place = "lost"]]
      /\ queued' = [i \in Identities |-> <<>>] /\ current' = [i \in Identities |-> 0]
      /\ stuck' = {} /\ asker' = asker
  BY DEF Restart
<1>2. /\ DOMAIN messages' = DOMAIN messages
      /\ messages' = [n \in DOMAIN messages' |-> messages'[n]]
      /\ \A n \in DOMAIN messages :
           messages'[n] \in Message /\ messages'[n].place \in {"done", "dropped", "lost"}
  BY <1>1, MessageAt DEF Message, Places
<1>3. messages' \in Seq(Message)
  BY <1>2, Rewritten
<1> QED
  BY <1>1, <1>2, <1>3 DEF RouterType, OneTurn, Tracked, NoneForgotten, Working

LEMMA RouterStep == StoreInv /\ RouterInv /\ [Next]_vars => RouterInv'
<1> SUFFICES ASSUME StoreInv, RouterInv, [Next]_vars PROVE RouterInv'
  OBVIOUS
<1>0. index \in [Accounts -> Identities \cup {Nobody}] /\ RouterType
  BY DEF StoreInv, StoreType, RouterInv
<1>1. ASSUME UNCHANGED routerVars PROVE RouterInv'
  BY <1>1 DEF routerVars, turnVars, RouterInv, RouterType, OneTurn, Tracked, Is, NoneForgotten
<1>2. ASSUME NEW new \in Message, new.place \notin Working \cup {"queued"},
             messages' = Append(messages, new), UNCHANGED turnVars
      PROVE  RouterInv'
  <2>1. /\ messages' \in Seq(Message)
        /\ DOMAIN messages' = DOMAIN messages \cup {Len(messages) + 1}
        /\ messages'[Len(messages) + 1] = new
        /\ \A n \in DOMAIN messages : messages'[n] = messages[n]
    BY <1>0, <1>2 DEF RouterType
  <2> QED
    BY <1>2, <2>1, Elsewhere
<1>3. ASSUME NEW m \in DOMAIN messages, NEW place \in Places,
             \/ messages[m].place = "transcribing" /\ place \in {"lost", "done"}
             \/ messages[m].place \in Working /\ place \in Working,
             messages' = Moved(m, place), UNCHANGED turnVars
      PROVE  RouterInv'
  <2>1. messages \in Seq(Message) /\ messages' = PlaceSet(messages, m, place)
    BY <1>0, <1>3 DEF RouterType, Moved, PlaceSet
  <2>2. /\ messages' \in Seq(Message) /\ DOMAIN messages' = DOMAIN messages
        /\ messages'[m].place = place /\ messages'[m].identity = messages[m].identity
        /\ \A n \in DOMAIN messages \ {m} : messages'[n] = messages[n]
    BY <2>1, PlaceSetKeeps
  <2>3. {"lost", "done"} \cap (Working \cup {"queued"}) = {}
    BY DEF Working
  <2> QED
    BY <1>3, <2>2, <2>3, Elsewhere
<1>4. ASSUME NEW i \in Identities, current[i] # 0
      PROVE  current[i] \in DOMAIN messages /\ messages[current[i]].place \in Working
  BY <1>4 DEF RouterInv, Tracked, Is
<1>5. ASSUME NEW a \in Accounts, Say(a) PROVE RouterInv'
  <2> DEFINE new == [account |-> a, place |-> "lost", identity |-> Nobody]
             list == Append(messages, new)
  <2>1. new \in Message /\ index[a] \in Identities
    BY <1>0, <1>5 DEF Say, Message, Places
  <2>2. /\ list \in Seq(Message) /\ Len(list) \in DOMAIN list
        /\ DOMAIN list = DOMAIN messages \cup {Len(list)} /\ Len(list) \notin DOMAIN messages
        /\ \A n \in DOMAIN messages \ {Len(list)} : list[n] = messages[n]
    BY <1>0, <2>1 DEF RouterType
  <2>3. Enqueue(Len(list), index[a], list)
    BY <1>5 DEF Say
  <2> HIDE DEF list
  <2> QED
    BY <2>1, <2>2, <2>3, EnqueueStep
<1>6. ASSUME NEW a \in Accounts, SendVoice(a) \/ SendUnlink(a) PROVE RouterInv'
  <2>1. PICK place \in {"transcribing", "done"} : Arrived(a, place, Nobody)
    BY <1>6 DEF SendVoice, SendUnlink
  <2>2. UNCHANGED turnVars
    BY <1>6 DEF SendVoice, SendUnlink
  <2>3. [account |-> a, place |-> place, identity |-> Nobody] \in Message
    BY DEF Message, Places
  <2> QED
    BY <1>2, <2>1, <2>2, <2>3 DEF Arrived, Working
<1>7. ASSUME NEW a \in Accounts, NEW code \in Codes, SendCode(a, code) PROVE RouterInv'
  <2>1. [account |-> a, place |-> "done", identity |-> Nobody] \in Message
    BY DEF Message, Places
  <2> QED
    BY <1>2, <1>7, <2>1 DEF SendCode, Arrived, Working
<1>8. ASSUME NEW a \in Accounts, SendCancel(a) PROVE RouterInv'
  BY <1>0, <1>8, CancelStep
<1>9. ASSUME NEW m \in DOMAIN messages, Transcribed(m) PROVE RouterInv'
  <2>1. messages[m].place = "transcribing" /\ messages[m] \in Message
    BY <1>0, <1>9, MessageAt DEF Transcribed
  <2>2. index[messages[m].account] \in Identities \cup {Nobody}
    BY <1>0, <2>1 DEF Message
  <2>3. CASE index[messages[m].account] # Nobody
             /\ Enqueue(m, index[messages[m].account], messages)
    <3>1. messages \in Seq(Message)
      BY <1>0 DEF RouterType
    <3> QED
      BY <2>1, <2>2, <2>3, <3>1, EnqueueStep
  <2>4. ASSUME NEW place \in {"lost", "done"}, messages' = Moved(m, place), UNCHANGED turnVars
        PROVE  RouterInv'
    <3>1. place \in Places
      BY DEF Places
    <3> QED
      BY <1>3, <2>1, <2>4, <3>1
  <2> QED
    BY <1>9, <2>3, <2>4 DEF Transcribed
<1>10. ASSUME NEW i \in Identities, TurnEnds(i) PROVE RouterInv'
  <2>1. PICK place \in {"replying", "failing"} : messages' = Moved(current[i], place)
    BY <1>10 DEF TurnEnds
  <2>2. current[i] # 0 /\ UNCHANGED turnVars
    BY <1>10 DEF TurnEnds, At
  <2>3. place \in Places /\ place \in Working
    BY DEF Places, Working
  <2> QED
    BY <1>3, <1>4, <2>1, <2>2, <2>3
<1>11. ASSUME NEW i \in Identities, ReplyRefused(i) PROVE RouterInv'
  <2>1. "failing" \in Places /\ "failing" \in Working
    BY DEF Places, Working
  <2> QED
    BY <1>3, <1>4, <1>11, <2>1 DEF ReplyRefused, At
<1>12. ASSUME NEW i \in Identities, Replied(i) PROVE RouterInv'
  <2>1. CASE queued[i] = <<>>
    <3>1. /\ current[i] # 0 /\ messages' = Moved(current[i], "done")
          /\ current' = [current EXCEPT ![i] = 0] /\ UNCHANGED <<queued, asker, stuck>>
      BY <1>12, <2>1 DEF Replied
    <3>2. stuck' \subseteq Identities
      BY <1>0, <3>1 DEF RouterType
    <3> QED
      BY <2>1, <3>1, <3>2, OverStep
  <2>2. CASE queued[i] # <<>>
    BY <1>12, <2>2, NextStep DEF Replied
  <2> QED
    BY <2>1, <2>2
<1>13. ASSUME NEW i \in Identities, DrainFails(i) PROVE RouterInv'
  <2>1. /\ current[i] # 0 /\ messages' = Moved(current[i], "lost")
        /\ current' = [current EXCEPT ![i] = 0] /\ stuck' = stuck \cup {i}
        /\ UNCHANGED <<queued, asker>>
    BY <1>13 DEF DrainFails, At
  <2>2. stuck' \subseteq Identities
    BY <1>0, <2>1 DEF RouterType
  <2> QED
    BY <2>1, <2>2, OverStep
<1>14. CASE Restart
  BY <1>14, RestartStep
<1>15. ASSUME \/ \E i \in Identities, code \in Codes : Issue(i, code)
              \/ (\E p \in pending : Expire(p)) \/ Forgive
              \/ \E i \in Identities : CliLink(i)
              \/ \E a \in Accounts : CliUnlink(a)
              \/ UNCHANGED vars
       PROVE  RouterInv'
  BY <1>1, <1>15 DEF Issue, Expire, Forgive, CliLink, CliUnlink, vars
<1> QED
  BY <1>5, <1>6, <1>7, <1>8, <1>9, <1>10, <1>11, <1>12, <1>13, <1>14, <1>15 DEF Next, Drain

-----------------------------------------------------------------------------
(* What follows of both. *)

LEMMA Inductive ==
  /\ Init => StoreInv /\ RouterInv
  /\ StoreInv /\ RouterInv /\ [Next]_vars => (StoreInv /\ RouterInv)'
  BY StoreInit, StoreStep, RouterInit, RouterStep DEF RouterInv

(* The state keeps the shape router.ts and identity.ts give it. *)
THEOREM TypeCorrect == Spec => []TypeOK
<1>1. StoreInv /\ RouterInv => TypeOK
  BY DEF StoreInv, StoreType, RouterInv, RouterType, TypeOK, Message
<1> QED
  BY <1>1, Inductive, PTL DEF Spec

(* An identity runs one turn at a time: enqueue starts a drain only when   *)
(* none is running, and drain fetches the next message itself.             *)
THEOREM OneTurnTheorem == Spec => []OneTurn
<1>1. RouterInv => OneTurn
  BY DEF RouterInv
<1> QED
  BY <1>1, Inductive, PTL DEF Spec

(* Nobody waits in a queue that no drain will fetch from, unless a reply   *)
(* that was refused twice ended the drain.                                 *)
THEOREM NoneForgottenTheorem == Spec => []NoneForgotten
<1>1. RouterInv => NoneForgotten
  BY DEF RouterInv
<1> QED
  BY <1>1, Inductive, PTL DEF Spec

(* An account belongs to one identity at most, and the index (identity.ts) *)
(* agrees with the identities, whatever is linked and unlinked, by message *)
(* or on the command line, and when the gateway loads the file again.      *)
THEOREM AccountsAgreeTheorem == Spec => []AccountsAgree
<1>1. StoreInv => AccountsAgree
  BY DEF StoreInv
<1> QED
  BY <1>1, Inductive, PTL DEF Spec

(* A code binds one account: redeemLinkCode takes it out of the codes that *)
(* can be redeemed before anything else happens.                           *)
THEOREM CodeOnceTheorem == Spec => []CodeOnce
<1>1. StoreInv => CodeOnce
  BY DEF StoreInv
<1> QED
  BY <1>1, Inductive, PTL DEF Spec
=============================================================================
