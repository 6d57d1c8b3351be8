------------------------ MODULE TenantLimiterProofs ------------------------
(***************************************************************************)
(* Theorems about TenantLimiter for every number of nodes, tenants, users  *)
(* and connections and every cap, under all its faults.                    *)
(*                                                                         *)
(* The two Redis keys are an inductive invariant of their own              *)
(* (RedisOK).  The cap on the connected users needs more: that every       *)
(* connection which holds a place is counted, but for a set F of them that *)
(* is no larger than the number of acquires that failed open               *)
(* (HoldersCounted).  F is not the set of the connections that failed      *)
(* open: when one of those is released it takes the count of another       *)
(* device of its user, and that device takes its place in F.               *)
(***************************************************************************)
EXTENDS TenantLimiter, TLAPS, FiniteSetTheorems

-----------------------------------------------------------------------------
(* Type correctness *)

\* The number of references lost with a set of connections is a number.
LEMMA LostNat ==
  ASSUME NEW S, S \subseteq Conns
  PROVE  Lost(S) \in Nat
<1>1. IsFiniteSet({c \in S : counted[c]})
  BY FiniteAssumption, FS_Subset, {c \in S : counted[c]} \subseteq Conns
<1> QED BY <1>1, FS_CardinalityType DEF Lost

\* A connection's identity splits into its tenant and its user.
LEMMA IdentityParts ==
  ASSUME NEW c \in Conns
  PROVE  /\ IdentityOf[c] \in Identities
         /\ IdentityOf[c][1] \in Tenants
         /\ IdentityOf[c][2] \in Users
         /\ IdentityOf[c] = <<IdentityOf[c][1], IdentityOf[c][2]>>
BY IdentityAssumption DEF Identities

\* Connections that vanish, for whatever reason, leave well-typed variables.
LEMMA VanishTypeOK ==
  ASSUME TypeOK, NEW S, S \subseteq Conns, Vanish(S)
  PROVE  TypeOK'
<1>1. leaks' \in 0 .. MaxLeaks
  BY LostNat, BoundAssumption DEF TypeOK, Vanish
<1>2. phase' \in [Conns -> Phases] /\ counted' \in [Conns -> BOOLEAN]
  BY DEF TypeOK, Vanish, Phases
<1> QED BY <1>1, <1>2 DEF TypeOK, Vanish, redis

\* Each variable keeps its type: in particular no release, not even one of a
\* connection that was never counted, leaves a negative reference count.
THEOREM TypeCorrect == Spec => []TypeOK
<1>1. Init => TypeOK
  BY BoundAssumption DEF Init, TypeOK, Phases
<1>2. TypeOK /\ [Next]_vars => TypeOK'
  <2> SUFFICES ASSUME TypeOK, [Next]_vars PROVE TypeOK'
    OBVIOUS
  <2> USE DEF TypeOK, Phases
  <2>1. ASSUME NEW c \in Conns, Connect(c) PROVE TypeOK'
    BY <2>1 DEF Connect, redis
  <2>2. ASSUME NEW c \in Conns, AcquireGrant(c) PROVE TypeOK'
    <3>1. conncount' \in [Identities -> Nat]
      BY <2>2, IdentityParts DEF AcquireGrant, GrantIf
    <3>2. online' \in [Tenants -> SUBSET Users]
      BY <2>2, IdentityParts DEF AcquireGrant, GrantIf
    <3> QED BY <2>2, <3>1, <3>2 DEF AcquireGrant, GrantIf
  <2>3. ASSUME NEW c \in Conns, AcquireRefuse(c) PROVE TypeOK'
    BY <2>3 DEF AcquireRefuse, redis
  <2>4. ASSUME NEW c \in Conns, AcquireReply(c) PROVE TypeOK'
    BY <2>4 DEF AcquireReply, redis
  <2>5. ASSUME NEW c \in Conns, AcquireError(c) PROVE TypeOK'
    BY <2>5, BoundAssumption DEF AcquireError, redis
  <2>6. ASSUME NEW c \in Conns, Cancel(c) PROVE TypeOK'
    BY <2>6, VanishTypeOK DEF Cancel
  <2>7. ASSUME NEW c \in Conns, Open(c) PROVE TypeOK'
    BY <2>7 DEF Open, redis
  <2>8. ASSUME NEW c \in Conns, Close(c) PROVE TypeOK'
    BY <2>8 DEF Close, redis
  <2>9. ASSUME NEW c \in Conns, ReleaseScript(c) PROVE TypeOK'
    <3>1. conncount' \in [Identities -> Nat]
      BY <2>9, IdentityParts DEF ReleaseScript, ReleaseWhen
    <3>2. online' \in [Tenants -> SUBSET Users]
      BY <2>9, IdentityParts DEF ReleaseScript, ReleaseWhen
    <3> QED BY <2>9, <3>1, <3>2 DEF ReleaseScript, ReleaseWhen
  <2>10. ASSUME NEW c \in Conns, ReleaseError(c) PROVE TypeOK'
    BY <2>10, VanishTypeOK DEF ReleaseError
  <2>11. ASSUME NEW n \in Nodes, NodeStop(n) PROVE TypeOK'
    BY <2>11, VanishTypeOK DEF NodeStop
  <2>12. CASE UNCHANGED vars
    BY <2>12 DEF vars
  <2> QED
    BY <2>1, <2>2, <2>3, <2>4, <2>5, <2>6, <2>7, <2>8, <2>9, <2>10, <2>11,
       <2>12 DEF Next
<1> QED BY <1>1, <1>2, PTL DEF Spec

-----------------------------------------------------------------------------
(* The two Redis keys *)

RedisOK == TypeOK /\ OnlineIffCounted /\ CapInRedis

\* A set of users is finite, and has a number of members.
LEMMA UsersFinite ==
  ASSUME NEW S, S \subseteq Users
  PROVE  IsFiniteSet(S) /\ Cardinality(S) \in Nat
BY FiniteAssumption, FS_Subset, FS_CardinalityType

\* A granting script keeps the two keys in agreement and the cap.
LEMMA GrantKeepsRedis ==
  ASSUME RedisOK, NEW c \in Conns, AcquireGrant(c)
  PROVE  OnlineIffCounted' /\ CapInRedis'
<1> DEFINE id == IdentityOf[c]
           t  == id[1]
           u  == id[2]
<1>1. id \in Identities /\ t \in Tenants /\ u \in Users /\ id = <<t, u>>
  BY IdentityParts
<1>2. conncount[id] \in Nat /\ conncount' = [conncount EXCEPT ![id] = @ + 1]
  BY <1>1, IdentityParts DEF RedisOK, TypeOK, AcquireGrant, GrantIf
<1>3. CASE conncount[id] = 0
  <2>1. /\ online' = [online EXCEPT ![t] = @ \cup {u}]
        /\ Cardinality(online[t]) < MaxUsers
    BY <1>3 DEF AcquireGrant, GrantIf
  <2>2. u \notin online[t] /\ online[t] \subseteq Users
    <3>1. u \in online[t] <=> conncount[<<t, u>>] > 0
      BY <1>1 DEF RedisOK, OnlineIffCounted
    <3>2. ~(conncount[id] > 0)
      BY <1>3
    <3>3. conncount[id] = conncount[<<t, u>>]
      BY <1>1
    <3>4. online[t] \subseteq Users
      BY <1>1 DEF RedisOK, TypeOK
    <3> HIDE DEF id, t, u
    <3> QED BY <3>1, <3>2, <3>3, <3>4
  <2>3. Cardinality(online[t] \cup {u}) <= MaxUsers
    BY <2>1, <2>2, UsersFinite, FS_AddElement, BoundAssumption
  <2>4. CapInRedis'
    BY <1>1, <2>1, <2>3 DEF RedisOK, CapInRedis, TypeOK
  <2>5. OnlineIffCounted'
    <3> SUFFICES ASSUME NEW s \in Tenants, NEW v \in Users
                 PROVE  v \in online'[s] <=> conncount'[<<s, v>>] > 0
      BY DEF OnlineIffCounted
    <3>1. CASE <<s, v>> = id
      BY <3>1, <1>1, <1>2, <1>3, <2>1 DEF RedisOK, TypeOK
    <3>2. CASE <<s, v>> # id
      <4>1. conncount'[<<s, v>>] = conncount[<<s, v>>]
        BY <3>2, <1>2 DEF RedisOK, TypeOK, Identities
      <4>2. v \in online'[s] <=> v \in online[s]
        BY <3>2, <1>1, <2>1 DEF RedisOK, TypeOK
      <4> QED BY <4>1, <4>2 DEF RedisOK, OnlineIffCounted
    <3> QED BY <3>1, <3>2
  <2> QED BY <2>4, <2>5
<1>4. CASE conncount[id] # 0
  <2>1. online' = online
    BY <1>4 DEF AcquireGrant, GrantIf
  <2>2. \A i \in Identities : conncount'[i] > 0 <=> conncount[i] > 0
    BY <1>1, <1>2, <1>4 DEF RedisOK, TypeOK
  <2> QED BY <2>1, <2>2 DEF RedisOK, OnlineIffCounted, CapInRedis, Identities
<1> QED BY <1>3, <1>4

\* So does a releasing script, whichever connection it runs for.
LEMMA ReleaseKeepsRedis ==
  ASSUME RedisOK, NEW c \in Conns, ReleaseScript(c)
  PROVE  OnlineIffCounted' /\ CapInRedis'
<1> DEFINE id == IdentityOf[c]
           t  == id[1]
           u  == id[2]
<1>1. id \in Identities /\ t \in Tenants /\ u \in Users /\ id = <<t, u>>
  BY IdentityParts
<1>2. conncount[id] \in Nat
  BY <1>1 DEF RedisOK, TypeOK
<1>3. CASE conncount[id] <= 1
  <2>1. /\ online' = [online EXCEPT ![t] = @ \ {u}]
        /\ conncount' = [conncount EXCEPT ![id] = 0]
    BY <1>3 DEF ReleaseScript, ReleaseWhen
  <2>2. online[t] \subseteq Users
    BY <1>1 DEF RedisOK, TypeOK
  <2>3. Cardinality(online[t] \ {u}) <= MaxUsers
    <3>1. Cardinality(online[t] \ {u}) <= Cardinality(online[t])
      BY <2>2, UsersFinite, FS_Subset, online[t] \ {u} \in SUBSET online[t]
    <3>2. Cardinality(online[t] \ {u}) \in Nat /\ Cardinality(online[t]) \in Nat
      BY <2>2, UsersFinite
    <3> QED BY <1>1, <3>1, <3>2, BoundAssumption DEF RedisOK, CapInRedis
  <2>4. CapInRedis'
    BY <1>1, <2>1, <2>3 DEF RedisOK, CapInRedis, TypeOK
  <2>5. OnlineIffCounted'
    <3> SUFFICES ASSUME NEW s \in Tenants, NEW v \in Users
                 PROVE  v \in online'[s] <=> conncount'[<<s, v>>] > 0
      BY DEF OnlineIffCounted
    <3>1. CASE <<s, v>> = id
      BY <3>1, <1>1, <2>1 DEF RedisOK, TypeOK
    <3>2. CASE <<s, v>> # id
      <4>1. conncount'[<<s, v>>] = conncount[<<s, v>>]
        BY <3>2, <2>1 DEF RedisOK, TypeOK, Identities
      <4>2. v \in online'[s] <=> v \in online[s]
        BY <3>2, <1>1, <2>1 DEF RedisOK, TypeOK
      <4> QED BY <4>1, <4>2 DEF RedisOK, OnlineIffCounted
    <3> QED BY <3>1, <3>2
  <2> QED BY <2>4, <2>5
<1>4. CASE ~(conncount[id] <= 1)
  <2>1. online' = online /\ conncount' = [conncount EXCEPT ![id] = @ - 1]
    BY <1>4 DEF ReleaseScript, ReleaseWhen
  <2>2. \A i \in Identities : conncount'[i] > 0 <=> conncount[i] > 0
    BY <1>1, <1>2, <1>4, <2>1 DEF RedisOK, TypeOK
  <2> QED BY <2>1, <2>2 DEF RedisOK, OnlineIffCounted, CapInRedis, Identities
<1> QED BY <1>3, <1>4

\* No other step touches the two keys.
LEMMA OthersLeaveRedis ==
  ASSUME NEW c \in Conns,
         \/ Connect(c) \/ AcquireRefuse(c) \/ AcquireReply(c) \/ AcquireError(c)
         \/ Cancel(c) \/ Open(c) \/ Close(c) \/ ReleaseError(c)
  PROVE  online' = online /\ conncount' = conncount
BY DEF Connect, AcquireRefuse, AcquireReply, AcquireError, Cancel, Open, Close,
       ReleaseError, Vanish, redis

\* Under every fault of the model the keys stay in agreement and a tenant's
\* online set never exceeds the cap.
THEOREM RedisInvariant == Spec => [](OnlineIffCounted /\ CapInRedis)
<1>1. Init => OnlineIffCounted /\ CapInRedis
  <2> SUFFICES ASSUME Init PROVE OnlineIffCounted /\ CapInRedis
    OBVIOUS
  <2>1. OnlineIffCounted
    BY DEF Init, OnlineIffCounted, Identities
  <2>2. CapInRedis
    BY FS_EmptySet, BoundAssumption DEF Init, CapInRedis
  <2> QED BY <2>1, <2>2
<1>2. TypeOK /\ OnlineIffCounted /\ CapInRedis /\ [Next]_vars
        => (OnlineIffCounted /\ CapInRedis)'
  <2> SUFFICES ASSUME RedisOK, [Next]_vars PROVE (OnlineIffCounted /\ CapInRedis)'
    BY DEF RedisOK
  <2>1. ASSUME NEW c \in Conns, AcquireGrant(c)
        PROVE  (OnlineIffCounted /\ CapInRedis)'
    BY <2>1, GrantKeepsRedis
  <2>2. ASSUME NEW c \in Conns, ReleaseScript(c)
        PROVE  (OnlineIffCounted /\ CapInRedis)'
    BY <2>2, ReleaseKeepsRedis
  <2>3. ASSUME online' = online /\ conncount' = conncount
        PROVE  (OnlineIffCounted /\ CapInRedis)'
    BY <2>3 DEF RedisOK, OnlineIffCounted, CapInRedis
  <2>4. ASSUME NEW n \in Nodes, NodeStop(n)
        PROVE  online' = online /\ conncount' = conncount
    BY <2>4 DEF NodeStop, Vanish, redis
  <2>5. CASE UNCHANGED vars
    BY <2>3, <2>5 DEF vars
  <2> QED
    BY <2>1, <2>2, <2>3, <2>4, <2>5, OthersLeaveRedis DEF Next
<1> QED BY <1>1, <1>2, TypeCorrect, PTL DEF Spec

\* What the scripts count against the cap never exceeds it.
THEOREM RedisCapHolds == Spec => []CapInRedis
BY RedisInvariant, PTL

-----------------------------------------------------------------------------
(* The holders that are counted *)

\* A set of connections is finite, and has a number of members.
LEMMA ConnsFinite ==
  ASSUME NEW S, S \subseteq Conns
  PROVE  IsFiniteSet(S) /\ Cardinality(S) \in Nat
BY FiniteAssumption, FS_Subset, FS_CardinalityType

LEMMA HoldersAreConns == \A id : Holders(id) \subseteq Conns
BY DEF Holders

\* The granting script counts the holder it makes.
LEMMA GrantCounts ==
  ASSUME TypeOK, HoldersCounted, NEW c \in Conns, AcquireGrant(c)
  PROVE  HoldersCounted'
<1>1. /\ conncount' = [conncount EXCEPT ![IdentityOf[c]] = @ + 1]
      /\ phase' = [phase EXCEPT ![c] = "granted"]
      /\ phase[c] = "acquiring"
      /\ failOpens' = failOpens
  BY DEF AcquireGrant, GrantIf
<1>2. PICK F \in SUBSET Conns : CountedBut(F)
  BY DEF HoldersCounted
<1>3. ASSUME NEW id \in Identities
      PROVE  Cardinality(Holders(id)' \ F) <= conncount'[id]
  <2>1. Cardinality(Holders(id) \ F) <= conncount[id] /\ conncount[id] \in Nat
    BY <1>2 DEF CountedBut, TypeOK
  <2>2. IsFiniteSet(Holders(id) \ F) /\ Cardinality(Holders(id) \ F) \in Nat
    BY ConnsFinite, HoldersAreConns
  <2>3. CASE IdentityOf[c] = id
    <3>1. conncount'[id] = conncount[id] + 1
      BY <1>1, <2>3 DEF TypeOK
    <3>2. c \notin Holders(id) /\ Holders(id)' = Holders(id) \cup {c}
      BY <1>1, <2>3 DEF Holders, TypeOK, Holding
    <3>3. CASE c \in F
      <4>1. Holders(id)' \ F = Holders(id) \ F
        BY <3>2, <3>3
      <4>2. Cardinality(Holders(id)' \ F) = Cardinality(Holders(id) \ F)
        BY <4>1, Zenon
      <4> QED BY <2>1, <2>2, <3>1, <4>2
    <3>4. CASE c \notin F
      <4>1. Holders(id)' \ F = (Holders(id) \ F) \cup {c}
        BY <3>2, <3>4
      <4>2. Cardinality((Holders(id) \ F) \cup {c}) = Cardinality(Holders(id) \ F) + 1
        BY <2>2, <3>2, FS_AddElement
      <4> QED BY <2>1, <2>2, <3>1, <4>1, <4>2
    <3> QED BY <3>3, <3>4
  <2>4. CASE IdentityOf[c] # id
    <3>1. Holders(id)' = Holders(id)
      BY <1>1, <2>4 DEF Holders, TypeOK
    <3>2. conncount'[id] = conncount[id]
      BY <1>1, <2>4 DEF TypeOK
    <3> QED BY <2>1, <3>1, <3>2
  <2> QED BY <2>3, <2>4
<1> QED BY <1>1, <1>2, <1>3 DEF HoldersCounted, CountedBut

\* The releasing script uncounts one holder of the user.  It is the one that
\* ends or, when that one was not counted, another one, if there is one.
LEMMA ReleaseUncounts ==
  ASSUME TypeOK, HoldersCounted, NEW c \in Conns, ReleaseScript(c)
  PROVE  HoldersCounted'
<1> DEFINE me == IdentityOf[c]
<1>1. /\ conncount' = [conncount EXCEPT ![me] = IF conncount[me] <= 1 THEN 0 ELSE @ - 1]
      /\ phase' = [phase EXCEPT ![c] = "idle"]
      /\ phase[c] = "releasing"
      /\ failOpens' = failOpens
  BY DEF ReleaseScript, ReleaseWhen
<1>2. PICK F \in SUBSET Conns : CountedBut(F)
  BY DEF HoldersCounted
<1>3. me \in Identities
  BY IdentityParts
<1>4. \A id \in Identities : conncount[id] \in Nat /\ Cardinality(Holders(id) \ F) <= conncount[id]
  BY <1>2 DEF CountedBut, TypeOK
<1>5. conncount'[me] = IF conncount[me] <= 1 THEN 0 ELSE conncount[me] - 1
  BY <1>1, <1>3 DEF TypeOK
<1>6. \A id \in Identities \ {me} :
          Holders(id)' = Holders(id) /\ conncount'[id] = conncount[id]
  BY <1>1 DEF Holders, TypeOK
<1>7. c \in Holders(me) /\ Holders(me)' = Holders(me) \ {c}
  BY <1>1 DEF Holders, TypeOK, Holding
<1>8. \A S \in SUBSET Conns : IsFiniteSet(S) /\ Cardinality(S) \in Nat
  BY ConnsFinite
<1>9. failOpens \in Nat /\ Cardinality(F) <= failOpens /\ IsFiniteSet(F)
  BY <1>2, <1>8, BoundAssumption DEF CountedBut, TypeOK
<1>10. SUFFICES \E G \in SUBSET Conns :
           /\ Cardinality(G) <= failOpens
           /\ Cardinality(Holders(me)' \ G) <= conncount'[me]
           /\ \A id \in Identities \ {me} : Holders(id) \ G \subseteq Holders(id) \ F
  <2>1. PICK G \in SUBSET Conns :
           /\ Cardinality(G) <= failOpens
           /\ Cardinality(Holders(me)' \ G) <= conncount'[me]
           /\ \A id \in Identities \ {me} : Holders(id) \ G \subseteq Holders(id) \ F
    BY <1>10
  <2>2. ASSUME NEW id \in Identities \ {me}
        PROVE  Cardinality(Holders(id)' \ G) <= conncount'[id]
    <3>1. Holders(id) \ F \in SUBSET Conns /\ Holders(id) \ G \in SUBSET Conns
      BY HoldersAreConns
    <3>2. Cardinality(Holders(id) \ G) <= Cardinality(Holders(id) \ F)
      BY <1>8, <2>1, <3>1, FS_Subset
    <3>3. /\ Cardinality(Holders(id) \ F) \in Nat /\ Cardinality(Holders(id) \ G) \in Nat
          /\ Cardinality(Holders(id) \ F) <= conncount[id] /\ conncount[id] \in Nat
      BY <1>4, <1>8, <3>1
    <3>4. Holders(id)' \ G = Holders(id) \ G /\ conncount'[id] = conncount[id]
      BY <1>6
    <3>5. Cardinality(Holders(id)' \ G) = Cardinality(Holders(id) \ G)
      BY <3>4, Zenon
    <3> QED BY <3>2, <3>3, <3>4, <3>5
  <2> HIDE DEF me
  <2>3. \A id \in Identities : Cardinality(Holders(id)' \ G) <= conncount'[id]
    BY <2>1, <2>2
  <2>4. CountedBut(G)'
    BY <1>1, <2>1, <2>3 DEF CountedBut
  <2> QED BY <2>4 DEF HoldersCounted
<1>11. Holders(me) \subseteq Conns
  BY HoldersAreConns
<1> HIDE DEF me
<1>12. CASE c \notin F
  <2>1. Holders(me)' \ F = (Holders(me) \ F) \ {c} /\ c \in Holders(me) \ F
    BY <1>7, <1>12
  <2>2. Cardinality((Holders(me) \ F) \ {c}) = Cardinality(Holders(me) \ F) - 1
    BY <1>8, <1>11, <2>1, FS_RemoveElement
  <2>3. Cardinality(Holders(me)' \ F) = Cardinality(Holders(me) \ F) - 1
    BY <2>1, <2>2, Zenon
  <2>4. Cardinality(Holders(me) \ F) \in Nat
    BY <1>8, <1>11, Holders(me) \ F \in SUBSET Conns
  <2>5. Cardinality(Holders(me)' \ F) <= conncount'[me]
    BY <1>3, <1>4, <1>5, <2>3, <2>4
  <2> QED BY <1>2, <1>9, <2>5
<1>13. CASE c \in F /\ Holders(me) \ F = {}
  <2>1. Holders(me)' \ F = {}
    BY <1>7, <1>13
  <2>2. Cardinality(Holders(me)' \ F) = 0
    BY <2>1, FS_EmptySet, Zenon
  <2>3. Cardinality(Holders(me)' \ F) <= conncount'[me]
    <3>1. conncount[me] \in Nat
      BY <1>3, <1>4
    <3>2. 0 <= conncount'[me]
      BY <1>5, <3>1
    <3> QED BY <2>2, <3>2, Zenon
  <2> QED BY <1>2, <1>9, <2>3
<1>14. CASE c \in F /\ Holders(me) \ F # {}
  <2>1. PICK d \in Holders(me) : d \notin F
    BY <1>14
  <2> DEFINE G == (F \ {c}) \cup {d}
  <2>2. IsFiniteSet(F \ {c}) /\ Cardinality(F \ {c}) = Cardinality(F) - 1
    BY <1>9, <1>14, FS_RemoveElement
  <2>3. Cardinality(G) = Cardinality(F)
    <3>1. Cardinality((F \ {c}) \cup {d}) = Cardinality(F \ {c}) + 1
      BY <2>1, <2>2, FS_AddElement
    <3>2. Cardinality(F) \in Nat
      BY <1>2, <1>8
    <3> QED BY <2>2, <3>1, <3>2
  <2>4. Holders(me)' \ G = (Holders(me) \ F) \ {d} /\ d \in Holders(me) \ F
    BY <1>7, <1>14, <2>1
  <2>5. Cardinality((Holders(me) \ F) \ {d}) = Cardinality(Holders(me) \ F) - 1
    BY <1>8, <1>11, <2>4, FS_RemoveElement
  <2>6. Cardinality(Holders(me)' \ G) <= conncount'[me]
    <3>1. Cardinality(Holders(me)' \ G) = Cardinality(Holders(me) \ F) - 1
      BY <2>4, <2>5, Zenon
    <3>2. Cardinality(Holders(me) \ F) \in Nat
      BY <1>8, <1>11, Holders(me) \ F \in SUBSET Conns
    <3> HIDE DEF G
    <3> QED BY <1>3, <1>4, <1>5, <3>1, <3>2
  <2>7. \A id \in Identities \ {me} : c \notin Holders(id)
    BY <1>7 DEF Holders
  <2>8. \A id \in Identities \ {me} : Holders(id) \ G \subseteq Holders(id) \ F
    BY <2>7
  <2>9. G \in SUBSET Conns
    BY <1>2, <1>11, <2>1
  <2> QED BY <1>9, <2>3, <2>6, <2>8, <2>9
<1> QED BY <1>12, <1>13, <1>14

\* An acquire that fails open makes one more holder, and excuses it.
LEMMA ErrorExcuses ==
  ASSUME TypeOK, HoldersCounted, NEW c \in Conns, AcquireError(c)
  PROVE  HoldersCounted'
<1>1. /\ phase' = [phase EXCEPT ![c] = "admitted"]
      /\ UNCHANGED conncount
      /\ failOpens' = failOpens + 1
  BY DEF AcquireError, redis
<1>2. PICK F \in SUBSET Conns : CountedBut(F)
  BY DEF HoldersCounted
<1> DEFINE G == F \cup {c}
<1>3. Cardinality(G) <= failOpens'
  <2>1. IsFiniteSet(F) /\ Cardinality(F) \in Nat /\ Cardinality(F) <= failOpens
        /\ failOpens \in Nat
    BY <1>2, ConnsFinite, BoundAssumption DEF CountedBut, TypeOK
  <2>2. Cardinality(F \cup {c}) <= Cardinality(F) + 1
    <3>1. CASE c \in F
      <4>1. F \cup {c} = F
        BY <3>1
      <4>2. Cardinality(F \cup {c}) = Cardinality(F)
        BY <4>1, Zenon
      <4> QED BY <2>1, <4>2
    <3>2. CASE c \notin F
      <4>1. Cardinality(F \cup {c}) = Cardinality(F) + 1
        BY <2>1, <3>2, FS_AddElement
      <4> QED BY <2>1, <4>1
    <3> QED BY <3>1, <3>2
  <2>3. Cardinality(F \cup {c}) \in Nat
    BY <1>2, ConnsFinite
  <2> QED BY <1>1, <2>1, <2>2, <2>3
<1>4. ASSUME NEW id \in Identities
      PROVE  Cardinality(Holders(id)' \ G) <= conncount'[id]
  <2>1. Holders(id)' \ G \in SUBSET (Holders(id) \ F)
    BY <1>1 DEF Holders, TypeOK
  <2>2. IsFiniteSet(Holders(id) \ F) /\ Cardinality(Holders(id) \ F) \in Nat
    BY ConnsFinite, HoldersAreConns
  <2>3. IsFiniteSet(Holders(id)' \ G)
        /\ Cardinality(Holders(id)' \ G) <= Cardinality(Holders(id) \ F)
    BY <2>1, <2>2, FS_Subset
  <2>4. Cardinality(Holders(id)' \ G) \in Nat
    BY <2>3, FS_CardinalityType
  <2>5. Cardinality(Holders(id) \ F) <= conncount[id] /\ conncount[id] \in Nat
    BY <1>2 DEF CountedBut, TypeOK
  <2> QED BY <1>1, <2>2, <2>3, <2>4, <2>5
<1>5. CountedBut(G)'
  BY <1>3, <1>4 DEF CountedBut
<1> QED BY <1>2, <1>5 DEF HoldersCounted

\* A step that makes no holder and runs no script: every other step is one.
Quiet ==
    /\ UNCHANGED <<conncount, failOpens>>
    /\ \A c \in Conns : phase'[c] \in Holding => phase[c] \in Holding

LEMMA OthersAreQuiet ==
  ASSUME TypeOK, [Next]_vars
  PROVE  \/ \E c \in Conns : AcquireGrant(c) \/ ReleaseScript(c) \/ AcquireError(c)
         \/ Quiet
<1> USE DEF TypeOK, Holding, Quiet
<1>1. ASSUME NEW c \in Conns,
             Connect(c) \/ AcquireRefuse(c) \/ AcquireReply(c) \/ Open(c) \/ Close(c)
      PROVE  Quiet
  BY <1>1 DEF Connect, AcquireRefuse, AcquireReply, Open, Close, redis
<1>2. ASSUME NEW S, Vanish(S) PROVE Quiet
  BY <1>2 DEF Vanish, redis
<1>3. ASSUME NEW c \in Conns, Cancel(c) \/ ReleaseError(c) PROVE Quiet
  BY <1>2, <1>3 DEF Cancel, ReleaseError
<1>4. ASSUME NEW n \in Nodes, NodeStop(n) PROVE Quiet
  BY <1>2, <1>4 DEF NodeStop
<1>5. ASSUME UNCHANGED vars PROVE Quiet
  BY <1>5 DEF vars
<1> HIDE DEF Quiet
<1> QED BY <1>1, <1>3, <1>4, <1>5 DEF Next

LEMMA QuietKeepsCounted ==
  ASSUME TypeOK, HoldersCounted, Quiet
  PROVE  HoldersCounted'
<1>1. PICK F \in SUBSET Conns : CountedBut(F)
  BY DEF HoldersCounted
<1>2. ASSUME NEW id \in Identities
      PROVE  Cardinality(Holders(id)' \ F) <= conncount'[id]
  <2>1. Holders(id)' \ F \in SUBSET (Holders(id) \ F)
    BY DEF Holders, Quiet
  <2>2. IsFiniteSet(Holders(id) \ F) /\ Cardinality(Holders(id) \ F) \in Nat
    BY ConnsFinite, HoldersAreConns
  <2>3. IsFiniteSet(Holders(id)' \ F)
        /\ Cardinality(Holders(id)' \ F) <= Cardinality(Holders(id) \ F)
    BY <2>1, <2>2, FS_Subset
  <2>4. Cardinality(Holders(id)' \ F) \in Nat
    BY <2>3, FS_CardinalityType
  <2>5. Cardinality(Holders(id) \ F) <= conncount[id] /\ conncount[id] \in Nat
    BY <1>1 DEF CountedBut, TypeOK
  <2> QED BY <2>2, <2>3, <2>4, <2>5 DEF Quiet
<1>3. CountedBut(F)'
  BY <1>1, <1>2 DEF CountedBut, Quiet
<1> QED BY <1>3 DEF HoldersCounted

\* Each place that is held is counted, but for as many as failed open: the
\* inductive invariant behind the cap, true however many references leak.
THEOREM HoldersAreCounted == Spec => []HoldersCounted
<1>1. Init => HoldersCounted
  <2> SUFFICES ASSUME Init PROVE HoldersCounted
    OBVIOUS
  <2>1. \A id \in Identities : Holders(id) \ {} = {} /\ conncount[id] = 0
    BY DEF Init, Holders, Holding
  <2>2. CountedBut({})
    BY <2>1, FS_EmptySet DEF CountedBut, Init
  <2> QED BY <2>2 DEF HoldersCounted
<1>2. TypeOK /\ HoldersCounted /\ [Next]_vars => HoldersCounted'
  <2> SUFFICES ASSUME TypeOK, HoldersCounted, [Next]_vars
               PROVE  HoldersCounted'
    OBVIOUS
  <2>1. ASSUME NEW c \in Conns, AcquireGrant(c) PROVE HoldersCounted'
    BY <2>1, GrantCounts
  <2>2. ASSUME NEW c \in Conns, ReleaseScript(c) PROVE HoldersCounted'
    BY <2>2, ReleaseUncounts
  <2>3. ASSUME NEW c \in Conns, AcquireError(c) PROVE HoldersCounted'
    BY <2>3, ErrorExcuses
  <2>4. CASE Quiet
    BY <2>4, QuietKeepsCounted
  <2> QED BY <2>1, <2>2, <2>3, <2>4, OthersAreQuiet
<1> QED BY <1>1, <1>2, TypeCorrect, PTL DEF Spec

-----------------------------------------------------------------------------
(* What follows from it *)

SafeInv == RedisOK /\ HoldersCounted

LEMMA Safe == Spec => []SafeInv
BY TypeCorrect, RedisInvariant, HoldersAreCounted, PTL DEF SafeInv, RedisOK

\* A user with a connection that is counted is in the tenant's online set.
LEMMA CountedIsOnline ==
  ASSUME SafeInv, NEW F \in SUBSET Conns, CountedBut(F),
         NEW c \in Conns \ F, phase[c] \in Holding
  PROVE  /\ conncount[IdentityOf[c]] > 0
         /\ IdentityOf[c][2] \in online[IdentityOf[c][1]]
<1> DEFINE id == IdentityOf[c]
           t  == id[1]
           u  == id[2]
<1>1. id \in Identities /\ t \in Tenants /\ u \in Users /\ id = <<t, u>>
  BY IdentityParts
<1>2. Holders(id) \ F # {}
  BY DEF Holders
<1>3. IsFiniteSet(Holders(id) \ F) /\ Cardinality(Holders(id) \ F) \in Nat
  BY ConnsFinite, HoldersAreConns
<1>4. Cardinality(Holders(id) \ F) # 0
  BY <1>2, <1>3, FS_EmptySet
<1>5. conncount[id] \in Nat /\ Cardinality(Holders(id) \ F) <= conncount[id]
  BY <1>1 DEF SafeInv, RedisOK, TypeOK, CountedBut
<1>6. conncount[id] > 0
  BY <1>3, <1>4, <1>5
<1>7. u \in online[t] <=> conncount[<<t, u>>] > 0
  BY <1>1 DEF SafeInv, RedisOK, OnlineIffCounted
<1>8. conncount[<<t, u>>] = conncount[id]
  BY <1>1
<1> HIDE DEF id, t, u
<1>9. conncount[id] > 0 /\ u \in online[t]
  BY <1>6, <1>7, <1>8
<1> QED BY <1>9 DEF id, t, u

\* A set of users of connections that are all counted, or excused, is no
\* larger than the set it was counted into and the number of excuses.
LEMMA ExcusedUsers ==
  ASSUME TypeOK, NEW F \in SUBSET Conns, Cardinality(F) <= failOpens,
         NEW A \in SUBSET Users, NEW U \in SUBSET Users,
         \A u \in U : u \in A \/ \E c \in F : IdentityOf[c][2] = u
  PROVE  Cardinality(U) <= Cardinality(A) + failOpens
<1> DEFINE X == {IdentityOf[c][2] : c \in F}
<1>1. IsFiniteSet(F) /\ Cardinality(F) \in Nat /\ failOpens \in Nat
  BY ConnsFinite, BoundAssumption DEF TypeOK
<1>2. IsFiniteSet(X) /\ Cardinality(X) <= Cardinality(F)
  <2> DEFINE f == [c \in F |-> IdentityOf[c][2]]
  <2>1. f \in Surjection(F, X)
    BY DEF Surjection
  <2> HIDE DEF f, X
  <2> QED BY <1>1, <2>1, FS_Surjection
<1>3. IsFiniteSet(A) /\ Cardinality(A) \in Nat /\ Cardinality(U) \in Nat
  BY UsersFinite
<1>4. Cardinality(X) \in Nat
  BY <1>2, FS_CardinalityType
<1>5. /\ IsFiniteSet(A \cup X)
      /\ Cardinality(A \cup X) = Cardinality(A) + Cardinality(X) - Cardinality(A \cap X)
  BY <1>2, <1>3, FS_Union
<1>6. Cardinality(A \cap X) \in Nat /\ Cardinality(A \cup X) \in Nat
  BY <1>2, <1>3, <1>5, FS_Subset, FS_CardinalityType
<1>7. U \in SUBSET (A \cup X)
  OBVIOUS
<1>8. Cardinality(U) <= Cardinality(A \cup X)
  BY <1>5, <1>7, FS_Subset
<1> HIDE DEF X
<1> QED BY <1>1, <1>2, <1>3, <1>4, <1>5, <1>6, <1>8

\* Whatever the number of nodes and however their handlers interleave, the
\* distinct users connected to a tenant exceed the cap by no more than the
\* number of acquires that failed open.
THEOREM CapHolds == Spec => []CapOnConnectedUsers
<1>1. SafeInv => CapOnConnectedUsers
  <2> SUFFICES ASSUME SafeInv, NEW t \in Tenants
               PROVE  Cardinality(ConnectedUsers(t)) <= MaxUsers + failOpens
    BY DEF CapOnConnectedUsers
  <2>0. TypeOK /\ failOpens \in Nat
    BY BoundAssumption DEF SafeInv, RedisOK, TypeOK
  <2>1. online[t] \in SUBSET Users /\ ConnectedUsers(t) \in SUBSET Users
    BY DEF SafeInv, RedisOK, TypeOK, ConnectedUsers
  <2>2. PICK F \in SUBSET Conns : CountedBut(F)
    BY DEF SafeInv, HoldersCounted
  <2>3. ASSUME NEW u \in ConnectedUsers(t)
        PROVE  u \in online[t] \/ \E c \in F : IdentityOf[c][2] = u
    <3>1. PICK c \in Conns : IdentityOf[c] = <<t, u>> /\ phase[c] \in {"admitted", "live"}
      BY DEF ConnectedUsers
    <3>2. IdentityOf[c][1] = t /\ IdentityOf[c][2] = u
      BY <3>1
    <3>3. CASE c \notin F
      BY <2>2, <3>1, <3>2, <3>3, CountedIsOnline DEF Holding
    <3> QED BY <3>2, <3>3
  <2>4. Cardinality(ConnectedUsers(t)) <= Cardinality(online[t]) + failOpens
    BY <2>0, <2>1, <2>2, <2>3, ExcusedUsers DEF CountedBut
  <2>5. Cardinality(online[t]) <= MaxUsers
    BY DEF SafeInv, RedisOK, CapInRedis
  <2>6. Cardinality(ConnectedUsers(t)) \in Nat /\ Cardinality(online[t]) \in Nat
    BY <2>1, UsersFinite
  <2> QED BY <2>0, <2>4, <2>5, <2>6, BoundAssumption
<1> QED BY <1>1, Safe, PTL

\* As long as Redis has answered every acquire, no device of a user is refused
\* while another one is open, on any node.
THEOREM MultiDeviceHolds == Spec => MultiDevice
<1> DEFINE Devices ==
      \A c, d \in Conns :
          IdentityOf[c] = IdentityOf[d] /\ OpenDevice(d) /\ failOpens = 0 => ~Refused(c)
<1>1. SafeInv /\ [Next]_vars => [Devices]_vars
  <2> SUFFICES ASSUME SafeInv, Next, NEW c \in Conns, NEW d \in Conns,
                      IdentityOf[c] = IdentityOf[d], OpenDevice(d), failOpens = 0,
                      Refused(c)
               PROVE  FALSE
    OBVIOUS
  <2>1. phase \in [Conns -> Phases] /\ phase[c] = "acquiring" /\ phase'[c] = "refused"
    BY DEF Refused, SafeInv, RedisOK, TypeOK
  <2>2. conncount[IdentityOf[c]] > 0 /\ conncount[IdentityOf[c]] \in Nat
    <3>1. PICK F \in SUBSET Conns : CountedBut(F)
      BY DEF SafeInv, HoldersCounted
    <3>2. IsFiniteSet(F) /\ Cardinality(F) \in Nat /\ Cardinality(F) <= 0
      BY <3>1, ConnsFinite DEF CountedBut
    <3>3. F = {}
      BY <3>2, FS_EmptySet
    <3>4. conncount[IdentityOf[d]] > 0
      BY <3>1, <3>3, CountedIsOnline DEF OpenDevice, Holding
    <3> QED BY <3>4, IdentityParts DEF SafeInv, RedisOK, TypeOK
  <2>3. ASSUME NEW e \in Conns, AcquireRefuse(e) PROVE FALSE
    <3>1. e = c
      BY <2>1, <2>3 DEF AcquireRefuse
    <3> QED BY <2>2, <2>3, <3>1 DEF AcquireRefuse
  <2>4. ASSUME NEW e \in Conns,
               \/ Connect(e) \/ AcquireReply(e) \/ AcquireError(e)
               \/ Open(e) \/ Close(e)
        PROVE  FALSE
    BY <2>1, <2>4 DEF Connect, AcquireReply, AcquireError, Open, Close
  <2>5. ASSUME NEW e \in Conns, AcquireGrant(e) \/ ReleaseScript(e) PROVE FALSE
    BY <2>1, <2>5 DEF AcquireGrant, GrantIf, ReleaseScript, ReleaseWhen
  <2>6. ASSUME NEW S, Vanish(S) PROVE FALSE
    BY <2>1, <2>6 DEF Vanish
  <2> QED
    BY <2>3, <2>4, <2>5, <2>6 DEF Next, Cancel, ReleaseError, NodeStop
<1>2. MultiDevice <=> [][Devices]_vars
  BY DEF MultiDevice
<1> QED BY <1>1, <1>2, Safe, PTL DEF Spec

-----------------------------------------------------------------------------
(* Nobody is stranded in the online set, while no reference has leaked *)

\* The connections of id whose script counted them.
CountedConns(id) == {c \in Conns : IdentityOf[c] = id /\ counted[c]}

CountedHold == \A c \in Conns : counted[c] => phase[c] \in Holding

\* Each unit of a reference count belongs to a connection that is not over.
CountsOwned ==
    leaks = 0 => \A id \in Identities : conncount[id] <= Cardinality(CountedConns(id))

LEMMA CountedFinite ==
  \A id : /\ IsFiniteSet(CountedConns(id))
          /\ Cardinality(CountedConns(id)) \in Nat
BY FiniteAssumption, FS_Subset, FS_CardinalityType, \A id : CountedConns(id) \in SUBSET Conns
   DEF CountedConns

\* What is counted keeps its place until it is released or vanishes.
LEMMA CountedKeepsPlace ==
  ASSUME TypeOK, CountedHold, [Next]_vars
  PROVE  CountedHold'
<1> USE DEF TypeOK, CountedHold, Holding
<1>1. ASSUME NEW c \in Conns,
             \/ Connect(c) \/ AcquireRefuse(c) \/ AcquireReply(c)
             \/ AcquireError(c) \/ Open(c) \/ Close(c)
      PROVE  CountedHold'
  BY <1>1 DEF Connect, AcquireRefuse, AcquireReply, AcquireError, Open, Close
<1>2. ASSUME NEW c \in Conns, AcquireGrant(c) \/ ReleaseScript(c)
      PROVE  CountedHold'
  BY <1>2 DEF AcquireGrant, GrantIf, ReleaseScript, ReleaseWhen
<1>3. ASSUME NEW S, Vanish(S) PROVE CountedHold'
  BY <1>3 DEF Vanish
<1>4. CASE UNCHANGED vars
  BY <1>4 DEF vars
<1> HIDE DEF CountedHold
<1> QED BY <1>1, <1>2, <1>3, <1>4 DEF Next, Cancel, ReleaseError, NodeStop

\* The granting script makes the owner of the unit it adds.
LEMMA GrantOwned ==
  ASSUME TypeOK, CountedHold, CountsOwned, NEW c \in Conns, AcquireGrant(c)
  PROVE  CountsOwned'
<1>1. /\ conncount' = [conncount EXCEPT ![IdentityOf[c]] = @ + 1]
      /\ counted' = [counted EXCEPT ![c] = TRUE]
      /\ phase[c] = "acquiring"
      /\ leaks' = leaks
  BY DEF AcquireGrant, GrantIf
<1> SUFFICES ASSUME leaks = 0, NEW id \in Identities
             PROVE  conncount'[id] <= Cardinality(CountedConns(id)')
  BY <1>1 DEF CountsOwned
<1>2. /\ conncount[id] <= Cardinality(CountedConns(id)) /\ conncount[id] \in Nat
      /\ IsFiniteSet(CountedConns(id)) /\ Cardinality(CountedConns(id)) \in Nat
  BY CountedFinite DEF CountsOwned, TypeOK
<1>3. CASE IdentityOf[c] = id
  <2>1. CountedConns(id)' = CountedConns(id) \cup {c} /\ c \notin CountedConns(id)
    BY <1>1, <1>3 DEF CountedConns, CountedHold, TypeOK, Holding
  <2>2. Cardinality(CountedConns(id) \cup {c}) = Cardinality(CountedConns(id)) + 1
    BY <1>2, <2>1, FS_AddElement
  <2>3. Cardinality(CountedConns(id)') = Cardinality(CountedConns(id)) + 1
    BY <2>1, <2>2, Zenon
  <2>4. conncount'[id] = conncount[id] + 1
    BY <1>1, <1>3 DEF TypeOK
  <2> QED BY <1>2, <2>3, <2>4
<1>4. CASE IdentityOf[c] # id
  <2>1. CountedConns(id)' = CountedConns(id)
    BY <1>1, <1>4 DEF CountedConns, TypeOK
  <2>2. Cardinality(CountedConns(id)') = Cardinality(CountedConns(id))
    BY <2>1, Zenon
  <2>3. conncount'[id] = conncount[id]
    BY <1>1, <1>4 DEF TypeOK
  <2> QED BY <1>2, <2>2, <2>3
<1> QED BY <1>3, <1>4

\* The releasing script takes a unit away for the owner that it ends, if any.
LEMMA ReleaseOwned ==
  ASSUME TypeOK, CountsOwned, NEW c \in Conns, ReleaseScript(c)
  PROVE  CountsOwned'
<1>1. /\ conncount' = [conncount EXCEPT ![IdentityOf[c]] =
                          IF conncount[IdentityOf[c]] <= 1 THEN 0 ELSE @ - 1]
      /\ counted' = [counted EXCEPT ![c] = FALSE]
      /\ leaks' = leaks
  BY DEF ReleaseScript, ReleaseWhen
<1> SUFFICES ASSUME leaks = 0, NEW id \in Identities
             PROVE  conncount'[id] <= Cardinality(CountedConns(id)')
  BY <1>1 DEF CountsOwned
<1>2. /\ conncount[id] <= Cardinality(CountedConns(id)) /\ conncount[id] \in Nat
      /\ IsFiniteSet(CountedConns(id)) /\ Cardinality(CountedConns(id)) \in Nat
  BY CountedFinite DEF CountsOwned, TypeOK
<1>3. CASE IdentityOf[c] = id
  <2>1. conncount'[id] = IF conncount[id] <= 1 THEN 0 ELSE conncount[id] - 1
    BY <1>1, <1>3 DEF TypeOK
  <2>2. CountedConns(id)' = CountedConns(id) \ {c}
    BY <1>1, <1>3 DEF CountedConns, TypeOK
  <2>3. Cardinality(CountedConns(id)') = Cardinality(CountedConns(id) \ {c})
    BY <2>2, Zenon
  <2>4. /\ IsFiniteSet(CountedConns(id) \ {c})
        /\ Cardinality(CountedConns(id) \ {c}) =
             IF c \in CountedConns(id) THEN Cardinality(CountedConns(id)) - 1
                                       ELSE Cardinality(CountedConns(id))
    BY <1>2, FS_RemoveElement
  <2>5. Cardinality(CountedConns(id) \ {c}) \in Nat
    BY <2>4, FS_CardinalityType
  <2> QED BY <1>2, <2>1, <2>3, <2>4, <2>5
<1>4. CASE IdentityOf[c] # id
  <2>1. CountedConns(id)' = CountedConns(id)
    BY <1>1, <1>4 DEF CountedConns, TypeOK
  <2>2. Cardinality(CountedConns(id)') = Cardinality(CountedConns(id))
    BY <2>1, Zenon
  <2>3. conncount'[id] = conncount[id]
    BY <1>1, <1>4 DEF TypeOK
  <2> QED BY <1>2, <2>2, <2>3
<1> QED BY <1>3, <1>4

\* When connections vanish without a leak, none of them owned a unit.
LEMMA VanishOwned ==
  ASSUME TypeOK, CountsOwned, NEW S, S \subseteq Conns, Vanish(S)
  PROVE  CountsOwned'
<1>1. Lost(S) \in Nat /\ leaks \in Nat /\ leaks' = leaks + Lost(S)
  BY LostNat, BoundAssumption DEF TypeOK, Vanish
<1> SUFFICES ASSUME leaks' = 0 PROVE CountsOwned'
  BY DEF CountsOwned
<1>2. leaks = 0 /\ Cardinality({c \in S : counted[c]}) = 0
  BY <1>1 DEF Lost
<1>3. {c \in S : counted[c]} = {}
  BY <1>2, ConnsFinite, FS_EmptySet, {c \in S : counted[c]} \subseteq Conns
<1>4. counted' = counted /\ conncount' = conncount
  BY <1>3 DEF Vanish, TypeOK, redis
<1> QED BY <1>2, <1>4 DEF CountsOwned, CountedConns

\* As long as no reference was lost, whoever the online set shows has a
\* connection, however many acquires failed open and are released all the same.
THEOREM NobodyIsStranded == Spec => []NoStaleUser
<1>1. Init => CountedHold /\ CountsOwned
  <2> SUFFICES ASSUME Init PROVE CountedHold /\ CountsOwned
    OBVIOUS
  <2>1. CountedHold
    BY DEF Init, CountedHold
  <2>2. \A id \in Identities : conncount[id] <= Cardinality(CountedConns(id))
    BY CountedFinite DEF Init
  <2> QED BY <2>1, <2>2 DEF CountsOwned
<1>2. TypeOK /\ CountedHold /\ CountsOwned /\ [Next]_vars => CountedHold' /\ CountsOwned'
  <2> SUFFICES ASSUME TypeOK, CountedHold, CountsOwned, [Next]_vars
               PROVE  CountsOwned'
    BY CountedKeepsPlace
  <2>1. ASSUME NEW c \in Conns, AcquireGrant(c) PROVE CountsOwned'
    BY <2>1, GrantOwned
  <2>2. ASSUME NEW c \in Conns, ReleaseScript(c) PROVE CountsOwned'
    BY <2>2, ReleaseOwned
  <2>3. ASSUME UNCHANGED <<conncount, counted, leaks>> PROVE CountsOwned'
    BY <2>3 DEF CountsOwned, CountedConns
  <2>4. ASSUME NEW c \in Conns,
               \/ Connect(c) \/ AcquireRefuse(c) \/ AcquireReply(c)
               \/ AcquireError(c) \/ Open(c) \/ Close(c)
        PROVE  UNCHANGED <<conncount, counted, leaks>>
    BY <2>4 DEF Connect, AcquireRefuse, AcquireReply, AcquireError, Open, Close, redis
  <2>5. ASSUME NEW S \in SUBSET Conns, Vanish(S) PROVE CountsOwned'
    BY <2>5, VanishOwned
  <2>6. ASSUME NEW c \in Conns, Cancel(c) \/ ReleaseError(c) PROVE CountsOwned'
    BY <2>5, <2>6 DEF Cancel, ReleaseError
  <2>7. ASSUME NEW n \in Nodes, NodeStop(n) PROVE CountsOwned'
    BY <2>5, <2>7 DEF NodeStop
  <2>8. CASE UNCHANGED vars
    BY <2>3, <2>8 DEF vars
  <2> QED BY <2>1, <2>2, <2>3, <2>4, <2>6, <2>7, <2>8 DEF Next
<1>3. TypeOK /\ OnlineIffCounted /\ CountedHold /\ CountsOwned => NoStaleUser
  <2> SUFFICES ASSUME TypeOK, OnlineIffCounted, CountedHold, CountsOwned, leaks = 0,
                      NEW t \in Tenants, NEW u \in online[t]
               PROVE  \E c \in Conns : IdentityOf[c] = <<t, u>> /\ phase[c] \in Holding
    BY DEF NoStaleUser, OnlineUsersAreConnected
  <2>1. u \in Users /\ <<t, u>> \in Identities
    BY DEF TypeOK, Identities
  <2>2. conncount[<<t, u>>] > 0
    BY <2>1 DEF OnlineIffCounted
  <2>3. /\ conncount[<<t, u>>] <= Cardinality(CountedConns(<<t, u>>))
        /\ conncount[<<t, u>>] \in Nat
    BY <2>1 DEF CountsOwned, TypeOK
  <2>4. Cardinality(CountedConns(<<t, u>>)) # 0
    BY <2>2, <2>3, CountedFinite
  <2>5. CountedConns(<<t, u>>) # {}
    BY <2>4, CountedFinite, FS_EmptySet
  <2> QED BY <2>5 DEF CountedConns, CountedHold
<1> QED BY <1>1, <1>2, <1>3, TypeCorrect, RedisInvariant, PTL DEF Spec

-----------------------------------------------------------------------------
(* Refinement *)

Sessions == {c \in Conns : phase[c] \in Holding}

\* TenantCap takes its Cardinality from an instance of FiniteSets of its own.
LEMMA SameCardinality == \A S : Cap!Cardinality(S) = Cardinality(S)
BY DEF Cap!Cardinality, Cardinality

\* Where the script grants, TenantCap may admit: a first reference finds room,
\* and a further one belongs to a user who is in the online set, whether that
\* user is connected or a leaked reference keeps the place.
LEMMA GrantAdmits ==
  ASSUME SafeInv, NEW c \in Conns, AcquireGrant(c)
  PROVE  LET t == IdentityOf[c][1]
             u == IdentityOf[c][2]
         IN  \/ u \in Cap!UsersOf(Sessions, t)
             \/ Cardinality(Cap!UsersOf(Sessions, t)) < MaxUsers + failOpens
<1> DEFINE t == IdentityOf[c][1]
           u == IdentityOf[c][2]
           U == Cap!UsersOf(Sessions, t)
<1>1. t \in Tenants /\ u \in Users /\ IdentityOf[c] = <<t, u>>
      /\ IdentityOf[c] \in Identities
  BY IdentityParts
<1>2. /\ online[t] \in SUBSET Users /\ conncount[IdentityOf[c]] \in Nat
      /\ Cardinality(online[t]) <= MaxUsers
      /\ TypeOK /\ failOpens \in Nat
  BY <1>1, BoundAssumption DEF SafeInv, RedisOK, TypeOK, CapInRedis
<1>3. PICK F \in SUBSET Conns : CountedBut(F)
  BY DEF SafeInv, HoldersCounted
<1>4. ASSUME NEW v \in U
      PROVE  v \in online[t] \/ \E d \in F : IdentityOf[d][2] = v
  <2>1. PICK d \in Sessions : IdentityOf[d] = <<t, v>>
    BY DEF Cap!UsersOf
  <2>2. d \in Conns /\ phase[d] \in Holding /\ IdentityOf[d][1] = t /\ IdentityOf[d][2] = v
    BY <2>1 DEF Sessions
  <2>3. CASE d \notin F
    BY <1>3, <2>2, <2>3, CountedIsOnline
  <2> QED BY <2>2, <2>3
<1>5. U \in SUBSET Users
  BY DEF Cap!UsersOf
<1>6. IsFiniteSet(online[t]) /\ Cardinality(online[t]) \in Nat /\ Cardinality(U) \in Nat
  BY <1>2, <1>5, UsersFinite
<1>7. CASE conncount[IdentityOf[c]] = 0
  <2>1. Cardinality(online[t]) < MaxUsers
    BY <1>7 DEF AcquireGrant, GrantIf
  <2>2. Cardinality(U) <= Cardinality(online[t]) + failOpens
    BY <1>2, <1>3, <1>4, <1>5, ExcusedUsers DEF CountedBut
  <2>3. Cardinality(U) < MaxUsers + failOpens
    BY <1>2, <1>6, <2>1, <2>2, BoundAssumption
  <2> QED BY <2>3
<1>8. CASE conncount[IdentityOf[c]] # 0 /\ u \notin U
  <2>1. u \in online[t]
    <3>1. u \in online[t] <=> conncount[<<t, u>>] > 0
      BY <1>1 DEF SafeInv, RedisOK, OnlineIffCounted
    <3>2. conncount[<<t, u>>] > 0
      BY <1>1, <1>2, <1>8
    <3> QED BY <3>1, <3>2
  <2> DEFINE A == online[t] \ {u}
  <2>2. A \in SUBSET Users /\ \A v \in U : v \in A \/ \E d \in F : IdentityOf[d][2] = v
    BY <1>2, <1>4, <1>8
  <2>3. IsFiniteSet(A) /\ Cardinality(A) = Cardinality(online[t]) - 1
    BY <1>6, <2>1, FS_RemoveElement
  <2> HIDE DEF A
  <2>4. Cardinality(U) <= Cardinality(A) + failOpens
    BY <1>2, <1>3, <1>5, <2>2, ExcusedUsers DEF CountedBut
  <2>5. Cardinality(U) < MaxUsers + failOpens
    BY <1>2, <1>6, <2>3, <2>4, BoundAssumption
  <2> QED BY <2>5
<1> QED BY <1>7, <1>8

\* The nodes and Redis together implement the one central limiter of
\* TenantCap, under every loss of replies, of releases and of whole nodes.
THEOREM ImplementsTenantCap == Spec => CapSpec
<1>1. Init => Cap!Init
  BY DEF Init, Cap!Init, Holding
<1>2. SafeInv /\ [Next]_vars => [Cap!Next]_<<Sessions, failOpens>>
  <2> SUFFICES ASSUME SafeInv, [Next]_vars PROVE Cap!Next
    OBVIOUS
  <2>0. TypeOK
    BY DEF SafeInv, RedisOK
  <2>1. ASSUME NEW c \in Conns, AcquireGrant(c) PROVE Cap!Next
    <3>1. c \notin Sessions /\ Sessions' = Sessions \cup {c} /\ failOpens' = failOpens
      BY <2>0, <2>1 DEF AcquireGrant, GrantIf, Sessions, Holding, TypeOK
    <3>2. Cap!Admit(c)
      BY <2>1, <3>1, GrantAdmits, SameCardinality DEF Cap!Admit, Sessions
    <3> QED BY <3>2 DEF Cap!Next
  <2>2. ASSUME NEW c \in Conns, AcquireError(c) PROVE Cap!Next
    <3>1. Sessions' = Sessions \cup {c} /\ failOpens' = failOpens + 1
      BY <2>0, <2>2 DEF AcquireError, Sessions, Holding, TypeOK
    <3>2. Cap!Waive(c)
      BY <3>1 DEF Cap!Waive, Sessions
    <3> QED BY <3>2 DEF Cap!Next
  <2>3. ASSUME \A d \in Conns : phase'[d] \in Holding => phase[d] \in Holding,
               UNCHANGED failOpens
        PROVE  Cap!Next
    <3>1. PICK S \in SUBSET Conns : S = Sessions \ Sessions'
      BY DEF Sessions
    <3>2. Sessions' \subseteq Sessions
      BY <2>3 DEF Sessions
    <3>3. S \subseteq Sessions /\ Sessions' = Sessions \ S
      BY <3>1, <3>2
    <3>4. Cap!End(S)
      BY <2>3, <3>3 DEF Cap!End, Sessions
    <3> QED BY <3>4 DEF Cap!Next
  <2>4. ASSUME NEW c \in Conns, ReleaseScript(c) PROVE Cap!Next
    <3>1. /\ \A d \in Conns : phase'[d] \in Holding => phase[d] \in Holding
          /\ UNCHANGED failOpens
      BY <2>0, <2>4 DEF ReleaseScript, ReleaseWhen, Holding, TypeOK
    <3> QED BY <2>3, <3>1
  <2>5. CASE Quiet
    BY <2>3, <2>5 DEF Quiet
  <2> QED BY <2>0, <2>1, <2>2, <2>4, <2>5, OthersAreQuiet
<1> QED BY <1>1, <1>2, Safe, PTL DEF Spec, CapSpec, Cap!Spec, Sessions
=============================================================================
