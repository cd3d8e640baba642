----------------------- MODULE ContainerCreationProofs -----------------------
(***************************************************************************)
(* Proofs about ContainerCreation, for any cluster and any number of       *)
(* requests.                                                               *)
(***************************************************************************)
EXTENDS ContainerCreation, FiniteSetTheorems, TLAPS

(* The lock and the reservation of a request go with its program counter,  *)
(* and so does the container it has made.                                  *)
Held == \A r \in Requests :
  /\ pc[r] \in Locked <=> lock = r
  /\ pending[r] # None <=> pc[r] \in Reserved

Holding == \A r \in Requests :
  /\ pc[r] \in {"refresh", "report", "done"} => made[r] # None
  /\ made[r] # None => /\ pc[r] \in {"refresh", "report", "release", "done"}
                       /\ of[made[r]] = r
                       /\ made[r] \notin lost
                       /\ pc[r] # "done" => pending[r] = host[made[r]]

(* A container that its request still counts on is the one that the        *)
(* request has made; there is no trace of one before it is created.        *)
Origin == \A c \in Containers :
  /\ of[c] = None => c \notin live /\ c \notin cached /\ c \notin lost
  /\ of[c] # None => /\ host[c] \in Nodes
                     /\ c \in lost \/ made[of[c]] = c

(* Once the request has seen it in the cache, it is in the cache.          *)
Kept == \A r \in Requests :
  pc[r] \in {"release", "done"} /\ made[r] # None /\ made[r] \in live => made[r] \in cached

(* Whoever lists the nodes misses no container but those still reserved.   *)
Listed == \A r \in Requests :
  pc[r] \in {"weigh", "select"} =>
    \A s \in Requests :
      made[s] # None /\ made[s] \in live => made[s] \in seen \/ pending[s] # None

Few == IsFiniteSet(cached) /\ IsFiniteSet(seen)

Inv == TypeOK /\ Held /\ Holding /\ Origin /\ Kept /\ Listed /\ Few

\* s has a place on n, in terms of what it has made.
Has(s, n) ==
  pending[s] = n \/ (made[s] # None /\ made[s] \in live /\ host[made[s]] = n)
-----------------------------------------------------------------------------
(* Each action keeps the types, then each part of the invariant.           *)
LEMMA TypeStep ==
  ASSUME Inv, [Next]_vars
  PROVE  TypeOK'
<1> USE NoneAssumption, RequestAssumption, RetryAssumption DEF Inv, world, caches,
        listing, request, TypeOK, Pcs, Locked, Reserved, Errors, Stages, Rename
<1>1. ASSUME NEW r \in Requests, CheckCaches(r)
      PROVE  TypeOK'
  BY <1>1 DEF CheckCaches, Refuse, Proceed
<1>2. ASSUME NEW r \in Requests, CheckPending(r)
      PROVE  TypeOK'
  BY <1>2, SMTT(60) DEF CheckPending, Refuse, Proceed
<1>3. ASSUME NEW r \in Requests, ListContainers(r)
      PROVE  TypeOK'
  BY <1>3, Zenon DEF ListContainers
<1>4. ASSUME NEW r \in Requests, UsedMemory(r)
      PROVE  TypeOK'
  BY <1>4, Zenon DEF UsedMemory
<1>5. ASSUME NEW r \in Requests, SelectFails(r)
      PROVE  TypeOK'
  BY <1>5, Zenon DEF SelectFails, Refuse
<1>6. ASSUME NEW r \in Requests, NEW n \in Nodes, Select(r, n)
      PROVE  TypeOK'
  BY <1>6, Zenon DEF Select
<1>7. ASSUME NEW r \in Requests, NEW e \in Errors \ {"none"}, CreateFails(r, e)
      PROVE  TypeOK'
  BY <1>7, Zenon DEF CreateFails
<1>8. ASSUME NEW r \in Requests, NEW c \in Containers, NEW answered \in BOOLEAN,
             Create(r, c, answered)
      PROVE  TypeOK'
  <2>1. name' \in [Containers -> Names \cup {None}] /\ host' \in [Containers -> Nodes \cup {None}]
    BY <1>8, Zenon DEF Create
  <2>2. live' \subseteq Containers /\ of' \in [Containers -> Requests \cup {None}]
    BY <1>8, Zenon DEF Create
  <2>3. /\ made' \in [Requests -> Containers \cup {None}] /\ lost' \subseteq Containers
        /\ pc' \in [Requests -> Pcs] /\ err' \in [Requests -> Errors]
    <3>1. CASE answered
      BY <1>8, <3>1, SMTT(60) DEF Create
    <3>2. CASE ~answered
      BY <1>8, <3>2 DEF Create
    <3> QED
      BY <3>1, <3>2, Zenon
  <2> QED
    BY <1>8, <2>1, <2>2, <2>3, Zenon DEF Create
<1>9. ASSUME NEW r \in Requests, Refresh(r)
      PROVE  TypeOK'
  BY <1>9 DEF Refresh, RefreshOf
<1>10. ASSUME NEW r \in Requests, Report(r)
      PROVE  TypeOK'
  <2>1. made[r] \in Containers
    BY <1>10 DEF Report, Holding
  <2>2. CASE made[r] \in cached
    BY <2>2, <1>10, Zenon DEF Report
  <2>3. CASE made[r] \notin cached
    BY <2>1, <2>3, <1>10 DEF Report
  <2> QED
    BY <2>2, <2>3, Zenon
<1>11. ASSUME NEW r \in Requests, Release(r)
      PROVE  TypeOK'
  BY <1>11 DEF Release, Return
<1>12. ASSUME NEW r \in Requests, Retry(r)
      PROVE  TypeOK'
  BY <1>12 DEF Retry, RetryOS, RetryImage, RetryLoop, GiveUp, Again, Return
<1>13. ASSUME NEW w \in Renamers, NEW c \in Containers, NEW x \in Names,
              RenameCheck(w, c, x)
      PROVE  TypeOK'
  BY <1>13, Zenon DEF RenameCheck
<1>14. ASSUME NEW w \in Renamers, RenameCall(w)
      PROVE  TypeOK'
  BY <1>14, Zenon DEF RenameCall
<1>15. ASSUME NEW w \in Renamers, RenameRefresh(w)
      PROVE  TypeOK'
  BY <1>15 DEF RenameRefresh, RefreshOf
<1>16. ASSUME NEW c \in Containers, Remove(c)
      PROVE  TypeOK'
  BY <1>16, Zenon DEF Remove
<1>17. ASSUME NEW c \in Containers, Learn(c)
      PROVE  TypeOK'
  BY <1>17, Zenon DEF Learn
<1>18. ASSUME NEW c \in Containers, Drop(c)
      PROVE  TypeOK'
  BY <1>18, Zenon DEF Drop
<1>19. CASE UNCHANGED vars
  BY <1>19, Zenon DEF vars
<1> HIDE DEF Inv, TypeOK, Pcs, Locked, Reserved, Errors, Stages, Rename
<1> QED
  BY <1>1, <1>2, <1>3, <1>4, <1>5, <1>6, <1>7, <1>8, <1>9,
     <1>10, <1>11, <1>12, <1>13, <1>14, <1>15, <1>16, <1>17, <1>18, <1>19, ZenonT(60) DEF Next,
     Attempt, RenameStep

LEMMA HeldStep ==
  ASSUME Inv, [Next]_vars
  PROVE  Held'
<1> USE NoneAssumption DEF Inv, world, caches, listing, request, TypeOK, Held,
        Locked, Reserved, Pcs
<1>1. ASSUME NEW r \in Requests, CheckCaches(r)
      PROVE  Held'
  BY <1>1 DEF CheckCaches, Refuse, Proceed
<1>2. ASSUME NEW r \in Requests, CheckPending(r)
      PROVE  Held'
  BY <1>2 DEF CheckPending, Refuse, Proceed
<1>3. ASSUME NEW r \in Requests, ListContainers(r)
      PROVE  Held'
  BY <1>3 DEF ListContainers
<1>4. ASSUME NEW r \in Requests, UsedMemory(r)
      PROVE  Held'
  BY <1>4 DEF UsedMemory
<1>5. ASSUME NEW r \in Requests, SelectFails(r)
      PROVE  Held'
  BY <1>5 DEF SelectFails, Refuse
<1>6. ASSUME NEW r \in Requests, NEW n \in Nodes, Select(r, n)
      PROVE  Held'
  BY <1>6 DEF Select
<1>7. ASSUME NEW r \in Requests, NEW e \in Errors \ {"none"}, CreateFails(r, e)
      PROVE  Held'
  BY <1>7 DEF CreateFails
<1>8. ASSUME NEW r \in Requests, NEW c \in Containers, NEW answered \in BOOLEAN,
             Create(r, c, answered)
      PROVE  Held'
  BY <1>8 DEF Create
<1>9. ASSUME NEW r \in Requests, Refresh(r)
      PROVE  Held'
  BY <1>9 DEF Refresh, RefreshOf
<1>10. ASSUME NEW r \in Requests, Report(r)
      PROVE  Held'
  BY <1>10 DEF Report
<1>11. ASSUME NEW r \in Requests, Release(r)
      PROVE  Held'
  BY <1>11 DEF Release, Return
<1>12. ASSUME NEW r \in Requests, Retry(r)
      PROVE  Held'
  BY <1>12 DEF Retry, RetryOS, RetryImage, RetryLoop, GiveUp, Again, Return
<1>13. ASSUME NEW w \in Renamers, NEW c \in Containers, NEW x \in Names,
              RenameCheck(w, c, x)
      PROVE  Held'
  BY <1>13, Zenon DEF RenameCheck
<1>14. ASSUME NEW w \in Renamers, RenameCall(w)
      PROVE  Held'
  BY <1>14, Zenon DEF RenameCall
<1>15. ASSUME NEW w \in Renamers, RenameRefresh(w)
      PROVE  Held'
  BY <1>15, Zenon DEF RenameRefresh, RefreshOf
<1>16. ASSUME NEW c \in Containers, Remove(c)
      PROVE  Held'
  BY <1>16, Zenon DEF Remove
<1>17. ASSUME NEW c \in Containers, Learn(c)
      PROVE  Held'
  BY <1>17, Zenon DEF Learn
<1>18. ASSUME NEW c \in Containers, Drop(c)
      PROVE  Held'
  BY <1>18, Zenon DEF Drop
<1>19. CASE UNCHANGED vars
  BY <1>19, Zenon DEF vars
<1> HIDE DEF Inv, TypeOK, Held, Locked, Reserved, Pcs
<1> QED
  BY <1>1, <1>2, <1>3, <1>4, <1>5, <1>6, <1>7, <1>8, <1>9,
     <1>10, <1>11, <1>12, <1>13, <1>14, <1>15, <1>16, <1>17, <1>18, <1>19, ZenonT(60) DEF Next,
     Attempt, RenameStep

LEMMA HoldingStep ==
  ASSUME Inv, [Next]_vars
  PROVE  Holding'
<1> USE NoneAssumption DEF Inv, world, caches, listing, request, TypeOK, Held,
        Holding, Origin, Reserved, Locked, Pcs
<1>1. ASSUME NEW r \in Requests, CheckCaches(r)
      PROVE  Holding'
  BY <1>1 DEF CheckCaches, Refuse, Proceed
<1>2. ASSUME NEW r \in Requests, CheckPending(r)
      PROVE  Holding'
  BY <1>2 DEF CheckPending, Refuse, Proceed
<1>3. ASSUME NEW r \in Requests, ListContainers(r)
      PROVE  Holding'
  BY <1>3 DEF ListContainers
<1>4. ASSUME NEW r \in Requests, UsedMemory(r)
      PROVE  Holding'
  BY <1>4 DEF UsedMemory
<1>5. ASSUME NEW r \in Requests, SelectFails(r)
      PROVE  Holding'
  BY <1>5 DEF SelectFails, Refuse
<1>6. ASSUME NEW r \in Requests, NEW n \in Nodes, Select(r, n)
      PROVE  Holding'
  BY <1>6 DEF Select
<1>7. ASSUME NEW r \in Requests, NEW e \in Errors \ {"none"}, CreateFails(r, e)
      PROVE  Holding'
  BY <1>7 DEF CreateFails
<1>8. ASSUME NEW r \in Requests, NEW c \in Containers, NEW answered \in BOOLEAN,
             Create(r, c, answered)
      PROVE  Holding'
  BY <1>8 DEF Create
<1>9. ASSUME NEW r \in Requests, Refresh(r)
      PROVE  Holding'
  BY <1>9 DEF Refresh, RefreshOf
<1>10. ASSUME NEW r \in Requests, Report(r)
      PROVE  Holding'
  BY <1>10 DEF Report
<1>11. ASSUME NEW r \in Requests, Release(r)
      PROVE  Holding'
  BY <1>11 DEF Release, Return
<1>12. ASSUME NEW r \in Requests, Retry(r)
      PROVE  Holding'
  BY <1>12 DEF Retry, RetryOS, RetryImage, RetryLoop, GiveUp, Again, Return
<1>13. ASSUME NEW w \in Renamers, NEW c \in Containers, NEW x \in Names,
              RenameCheck(w, c, x)
      PROVE  Holding'
  BY <1>13, Zenon DEF RenameCheck
<1>14. ASSUME NEW w \in Renamers, RenameCall(w)
      PROVE  Holding'
  BY <1>14, Zenon DEF RenameCall
<1>15. ASSUME NEW w \in Renamers, RenameRefresh(w)
      PROVE  Holding'
  BY <1>15, Zenon DEF RenameRefresh, RefreshOf
<1>16. ASSUME NEW c \in Containers, Remove(c)
      PROVE  Holding'
  BY <1>16, Zenon DEF Remove
<1>17. ASSUME NEW c \in Containers, Learn(c)
      PROVE  Holding'
  BY <1>17, Zenon DEF Learn
<1>18. ASSUME NEW c \in Containers, Drop(c)
      PROVE  Holding'
  BY <1>18, Zenon DEF Drop
<1>19. CASE UNCHANGED vars
  BY <1>19, Zenon DEF vars
<1> HIDE DEF Inv, TypeOK, Held, Holding, Origin, Reserved, Locked, Pcs
<1> QED
  BY <1>1, <1>2, <1>3, <1>4, <1>5, <1>6, <1>7, <1>8, <1>9,
     <1>10, <1>11, <1>12, <1>13, <1>14, <1>15, <1>16, <1>17, <1>18, <1>19, ZenonT(60) DEF Next,
     Attempt, RenameStep

LEMMA OriginStep ==
  ASSUME Inv, [Next]_vars
  PROVE  Origin'
<1> USE NoneAssumption DEF Inv, world, caches, listing, request, TypeOK, Held,
        Holding, Origin, Reserved, Locked, Pcs
<1>1. ASSUME NEW r \in Requests, CheckCaches(r)
      PROVE  Origin'
  BY <1>1, Zenon DEF CheckCaches, Refuse, Proceed
<1>2. ASSUME NEW r \in Requests, CheckPending(r)
      PROVE  Origin'
  BY <1>2, Zenon DEF CheckPending, Refuse, Proceed
<1>3. ASSUME NEW r \in Requests, ListContainers(r)
      PROVE  Origin'
  BY <1>3, Zenon DEF ListContainers
<1>4. ASSUME NEW r \in Requests, UsedMemory(r)
      PROVE  Origin'
  BY <1>4, Zenon DEF UsedMemory
<1>5. ASSUME NEW r \in Requests, SelectFails(r)
      PROVE  Origin'
  BY <1>5, Zenon DEF SelectFails, Refuse
<1>6. ASSUME NEW r \in Requests, NEW n \in Nodes, Select(r, n)
      PROVE  Origin'
  BY <1>6, Zenon DEF Select
<1>7. ASSUME NEW r \in Requests, NEW e \in Errors \ {"none"}, CreateFails(r, e)
      PROVE  Origin'
  BY <1>7, Zenon DEF CreateFails
<1>8. ASSUME NEW r \in Requests, NEW c \in Containers, NEW answered \in BOOLEAN,
             Create(r, c, answered)
      PROVE  Origin'
  BY <1>8 DEF Create
<1>9. ASSUME NEW r \in Requests, Refresh(r)
      PROVE  Origin'
  BY <1>9 DEF Refresh, RefreshOf
<1>10. ASSUME NEW r \in Requests, Report(r)
      PROVE  Origin'
  BY <1>10 DEF Report
<1>11. ASSUME NEW r \in Requests, Release(r)
      PROVE  Origin'
  BY <1>11, Zenon DEF Release, Return
<1>12. ASSUME NEW r \in Requests, Retry(r)
      PROVE  Origin'
  BY <1>12, Zenon DEF Retry, RetryOS, RetryImage, RetryLoop, GiveUp, Again, Return
<1>13. ASSUME NEW w \in Renamers, NEW c \in Containers, NEW x \in Names,
              RenameCheck(w, c, x)
      PROVE  Origin'
  BY <1>13, Zenon DEF RenameCheck
<1>14. ASSUME NEW w \in Renamers, RenameCall(w)
      PROVE  Origin'
  BY <1>14, Zenon DEF RenameCall
<1>15. ASSUME NEW w \in Renamers, RenameRefresh(w)
      PROVE  Origin'
  BY <1>15 DEF RenameRefresh, RefreshOf
<1>16. ASSUME NEW c \in Containers, Remove(c)
      PROVE  Origin'
  BY <1>16, Zenon DEF Remove
<1>17. ASSUME NEW c \in Containers, Learn(c)
      PROVE  Origin'
  BY <1>17, Zenon DEF Learn
<1>18. ASSUME NEW c \in Containers, Drop(c)
      PROVE  Origin'
  BY <1>18, Zenon DEF Drop
<1>19. CASE UNCHANGED vars
  BY <1>19, Zenon DEF vars
<1> HIDE DEF Inv, TypeOK, Held, Holding, Origin, Reserved, Locked, Pcs
<1> QED
  BY <1>1, <1>2, <1>3, <1>4, <1>5, <1>6, <1>7, <1>8, <1>9,
     <1>10, <1>11, <1>12, <1>13, <1>14, <1>15, <1>16, <1>17, <1>18, <1>19, ZenonT(60) DEF Next,
     Attempt, RenameStep

LEMMA KeptStep ==
  ASSUME Inv, [Next]_vars
  PROVE  Kept'
<1> USE NoneAssumption DEF Inv, world, caches, listing, request, TypeOK, Held,
        Holding, Origin, Kept, Reserved, Locked, Pcs
<1>1. ASSUME NEW r \in Requests, CheckCaches(r)
      PROVE  Kept'
  BY <1>1 DEF CheckCaches, Refuse, Proceed
<1>2. ASSUME NEW r \in Requests, CheckPending(r)
      PROVE  Kept'
  BY <1>2 DEF CheckPending, Refuse, Proceed
<1>3. ASSUME NEW r \in Requests, ListContainers(r)
      PROVE  Kept'
  BY <1>3 DEF ListContainers
<1>4. ASSUME NEW r \in Requests, UsedMemory(r)
      PROVE  Kept'
  BY <1>4 DEF UsedMemory
<1>5. ASSUME NEW r \in Requests, SelectFails(r)
      PROVE  Kept'
  BY <1>5 DEF SelectFails, Refuse
<1>6. ASSUME NEW r \in Requests, NEW n \in Nodes, Select(r, n)
      PROVE  Kept'
  BY <1>6 DEF Select
<1>7. ASSUME NEW r \in Requests, NEW e \in Errors \ {"none"}, CreateFails(r, e)
      PROVE  Kept'
  BY <1>7 DEF CreateFails
<1>8. ASSUME NEW r \in Requests, NEW c \in Containers, NEW answered \in BOOLEAN,
             Create(r, c, answered)
      PROVE  Kept'
  BY <1>8 DEF Create
<1>9. ASSUME NEW r \in Requests, Refresh(r)
      PROVE  Kept'
  BY <1>9 DEF Refresh, RefreshOf
<1>10. ASSUME NEW r \in Requests, Report(r)
      PROVE  Kept'
  BY <1>10 DEF Report
<1>11. ASSUME NEW r \in Requests, Release(r)
      PROVE  Kept'
  BY <1>11 DEF Release, Return
<1>12. ASSUME NEW r \in Requests, Retry(r)
      PROVE  Kept'
  BY <1>12 DEF Retry, RetryOS, RetryImage, RetryLoop, GiveUp, Again, Return
<1>13. ASSUME NEW w \in Renamers, NEW c \in Containers, NEW x \in Names,
              RenameCheck(w, c, x)
      PROVE  Kept'
  BY <1>13, Zenon DEF RenameCheck
<1>14. ASSUME NEW w \in Renamers, RenameCall(w)
      PROVE  Kept'
  BY <1>14, Zenon DEF RenameCall
<1>15. ASSUME NEW w \in Renamers, RenameRefresh(w)
      PROVE  Kept'
  BY <1>15, Zenon DEF RenameRefresh, RefreshOf
<1>16. ASSUME NEW c \in Containers, Remove(c)
      PROVE  Kept'
  BY <1>16, Zenon DEF Remove
<1>17. ASSUME NEW c \in Containers, Learn(c)
      PROVE  Kept'
  BY <1>17, Zenon DEF Learn
<1>18. ASSUME NEW c \in Containers, Drop(c)
      PROVE  Kept'
  BY <1>18 DEF Drop
<1>19. CASE UNCHANGED vars
  BY <1>19, Zenon DEF vars
<1> HIDE DEF Inv, TypeOK, Held, Holding, Origin, Kept, Reserved, Locked, Pcs
<1> QED
  BY <1>1, <1>2, <1>3, <1>4, <1>5, <1>6, <1>7, <1>8, <1>9,
     <1>10, <1>11, <1>12, <1>13, <1>14, <1>15, <1>16, <1>17, <1>18, <1>19, ZenonT(60) DEF Next,
     Attempt, RenameStep

LEMMA ListedStep ==
  ASSUME Inv, [Next]_vars
  PROVE  Listed'
<1> USE NoneAssumption DEF Inv, world, caches, listing, request, TypeOK, Held,
        Holding, Origin, Kept, Listed, Reserved, Locked, Pcs
<1>1. ASSUME NEW r \in Requests, CheckCaches(r)
      PROVE  Listed'
  BY <1>1 DEF CheckCaches, Refuse, Proceed
<1>2. ASSUME NEW r \in Requests, CheckPending(r)
      PROVE  Listed'
  BY <1>2 DEF CheckPending, Refuse, Proceed
<1>3. ASSUME NEW r \in Requests, ListContainers(r)
      PROVE  Listed'
  BY <1>3 DEF ListContainers
<1>4. ASSUME NEW r \in Requests, UsedMemory(r)
      PROVE  Listed'
  BY <1>4, Zenon DEF UsedMemory
<1>5. ASSUME NEW r \in Requests, SelectFails(r)
      PROVE  Listed'
  BY <1>5 DEF SelectFails, Refuse
<1>6. ASSUME NEW r \in Requests, NEW n \in Nodes, Select(r, n)
      PROVE  Listed'
  BY <1>6 DEF Select
<1>7. ASSUME NEW r \in Requests, NEW e \in Errors \ {"none"}, CreateFails(r, e)
      PROVE  Listed'
  BY <1>7 DEF CreateFails
<1>8. ASSUME NEW r \in Requests, NEW c \in Containers, NEW answered \in BOOLEAN,
             Create(r, c, answered)
      PROVE  Listed'
  BY <1>8 DEF Create
<1>9. ASSUME NEW r \in Requests, Refresh(r)
      PROVE  Listed'
  BY <1>9 DEF Refresh, RefreshOf
<1>10. ASSUME NEW r \in Requests, Report(r)
      PROVE  Listed'
  BY <1>10 DEF Report
<1>11. ASSUME NEW r \in Requests, Release(r)
      PROVE  Listed'
  BY <1>11 DEF Release, Return
<1>12. ASSUME NEW r \in Requests, Retry(r)
      PROVE  Listed'
  BY <1>12 DEF Retry, RetryOS, RetryImage, RetryLoop, GiveUp, Again, Return
<1>13. ASSUME NEW w \in Renamers, NEW c \in Containers, NEW x \in Names,
              RenameCheck(w, c, x)
      PROVE  Listed'
  BY <1>13, Zenon DEF RenameCheck
<1>14. ASSUME NEW w \in Renamers, RenameCall(w)
      PROVE  Listed'
  BY <1>14, Zenon DEF RenameCall
<1>15. ASSUME NEW w \in Renamers, RenameRefresh(w)
      PROVE  Listed'
  BY <1>15, Zenon DEF RenameRefresh, RefreshOf
<1>16. ASSUME NEW c \in Containers, Remove(c)
      PROVE  Listed'
  BY <1>16, Zenon DEF Remove
<1>17. ASSUME NEW c \in Containers, Learn(c)
      PROVE  Listed'
  BY <1>17, Zenon DEF Learn
<1>18. ASSUME NEW c \in Containers, Drop(c)
      PROVE  Listed'
  BY <1>18, Zenon DEF Drop
<1>19. CASE UNCHANGED vars
  BY <1>19, Zenon DEF vars
<1> HIDE DEF Inv, TypeOK, Held, Holding, Origin, Kept, Listed, Reserved, Locked, Pcs
<1> QED
  BY <1>1, <1>2, <1>3, <1>4, <1>5, <1>6, <1>7, <1>8, <1>9,
     <1>10, <1>11, <1>12, <1>13, <1>14, <1>15, <1>16, <1>17, <1>18, <1>19, ZenonT(60) DEF Next,
     Attempt, RenameStep

LEMMA FewStep ==
  ASSUME Inv, [Next]_vars
  PROVE  Few'
<1>1. IsFiniteSet(cached) /\ IsFiniteSet(seen)
  BY Zenon DEF Inv, Few
<1>2. \A x : IsFiniteSet(cached \cup {x}) /\ IsFiniteSet(cached \ {x})
  BY <1>1, FS_AddElement, FS_RemoveElement, ZenonT(60)
<1>3. cached' = cached \/ \E x : cached' = cached \cup {x} \/ cached' = cached \ {x}
  BY SMTT(60) DEF Next, vars, Attempt, Retry, RenameStep, CheckCaches, CheckPending,
         ListContainers, UsedMemory, Select, SelectFails, Create, CreateFails,
         Refresh, Report, Release, RetryOS, RetryImage, RetryLoop, GiveUp, Again, Return,
         RenameCheck, RenameCall, RenameRefresh, Remove, Learn, Drop, RefreshOf, caches
<1>4. seen' = seen \/ seen' = cached \/ seen' = {}
  BY DEF Next, vars, Attempt, Retry, RenameStep, CheckCaches, CheckPending,
         ListContainers, UsedMemory, Select, SelectFails, Create, CreateFails,
         Refresh, Report, Release, RetryOS, RetryImage, RetryLoop, GiveUp, Again, Return,
         RenameCheck, RenameCall, RenameRefresh, Remove, Learn, Drop, Refuse, Proceed, listing
<1> QED
  BY <1>1, <1>2, <1>3, <1>4, FS_EmptySet, Zenon DEF Few

LEMMA InvInit == Init => Inv
<1> SUFFICES ASSUME Init PROVE Inv
  BY Zenon
<1> USE NoneAssumption DEF Init
<1>1. TypeOK
  BY Zenon DEF TypeOK, Pcs, Locked, Reserved, Errors, Stages, Rename
<1>2. Held /\ Holding /\ Origin /\ Kept /\ Listed
  BY Zenon DEF Held, Holding, Origin, Kept, Listed, Locked, Reserved
<1>3. Few
  BY FS_EmptySet, Zenon DEF Few
<1> QED
  BY <1>1, <1>2, <1>3, Zenon DEF Inv

(* The invariant from which the others follow.                             *)
LEMMA Invariance == Spec => []Inv
<1>1. Inv /\ [Next]_vars => Inv'
  BY TypeStep, HeldStep, HoldingStep, OriginStep, KeptStep, ListedStep, FewStep, Zenon DEF Inv
<1> QED
  BY InvInit, <1>1, PTL DEF Spec

(* The nodes, containers and requests of CreateContainer keep their types. *)
THEOREM TypeCorrect == Spec => []TypeOK
<1>1. Inv => TypeOK
  BY Zenon DEF Inv
<1> QED
  BY Invariance, <1>1, PTL

(* createContainer gives its reservation back only when the container is   *)
(* in the cache, or when the request has been told of an error.            *)
THEOREM AllAccounted == Spec => []Accounted
<1>1. Inv => Accounted
  BY NoneAssumption DEF Inv, Accounted, Mine, TypeOK, Holding, Origin, Kept
<1> QED
  BY Invariance, <1>1, PTL

-----------------------------------------------------------------------------
(* Only Select gives a place to a request, and it gives the one it chose.  *)
LEMMA Gains ==
  ASSUME Inv, [Next]_vars
  PROVE  \/ \A s \in Requests, m \in Nodes : Has(s, m)' => Has(s, m)
         \/ \E r \in Requests, n \in Nodes : Select(r, n)
<1> DEFINE Goal == \/ \A s \in Requests, m \in Nodes : Has(s, m)' => Has(s, m)
                  \/ \E r \in Requests, n \in Nodes : Select(r, n)
<1> USE NoneAssumption DEF Inv, world, caches, listing, request, TypeOK, Holding,
        Origin, Has
<1>1. ASSUME NEW r \in Requests, CheckCaches(r)
      PROVE  Goal
  BY <1>1, Zenon DEF CheckCaches, Refuse, Proceed
<1>2. ASSUME NEW r \in Requests, CheckPending(r)
      PROVE  Goal
  BY <1>2, Zenon DEF CheckPending, Refuse, Proceed
<1>3. ASSUME NEW r \in Requests, ListContainers(r)
      PROVE  Goal
  BY <1>3, Zenon DEF ListContainers
<1>4. ASSUME NEW r \in Requests, UsedMemory(r)
      PROVE  Goal
  BY <1>4, Zenon DEF UsedMemory
<1>5. ASSUME NEW r \in Requests, SelectFails(r)
      PROVE  Goal
  BY <1>5, Zenon DEF SelectFails, Refuse
<1>6. ASSUME NEW r \in Requests, NEW n \in Nodes, Select(r, n)
      PROVE  Goal
  BY <1>6, Zenon DEF Select
<1>7. ASSUME NEW r \in Requests, NEW e \in Errors \ {"none"}, CreateFails(r, e)
      PROVE  Goal
  BY <1>7, Zenon DEF CreateFails
<1>8. ASSUME NEW r \in Requests, NEW c \in Containers, NEW answered \in BOOLEAN,
             Create(r, c, answered)
      PROVE  Goal
  BY <1>8 DEF Create
<1>9. ASSUME NEW r \in Requests, Refresh(r)
      PROVE  Goal
  BY <1>9, Zenon DEF Refresh, RefreshOf
<1>10. ASSUME NEW r \in Requests, Report(r)
      PROVE  Goal
  BY <1>10 DEF Report
<1>11. ASSUME NEW r \in Requests, Release(r)
      PROVE  Goal
  BY <1>11 DEF Release, Return
<1>12. ASSUME NEW r \in Requests, Retry(r)
      PROVE  Goal
  BY <1>12 DEF Retry, RetryOS, RetryImage, RetryLoop, GiveUp, Again, Return
<1>13. ASSUME NEW w \in Renamers, NEW c \in Containers, NEW x \in Names,
              RenameCheck(w, c, x)
      PROVE  Goal
  BY <1>13, Zenon DEF RenameCheck
<1>14. ASSUME NEW w \in Renamers, RenameCall(w)
      PROVE  Goal
  BY <1>14, Zenon DEF RenameCall
<1>15. ASSUME NEW w \in Renamers, RenameRefresh(w)
      PROVE  Goal
  BY <1>15, Zenon DEF RenameRefresh, RefreshOf
<1>16. ASSUME NEW c \in Containers, Remove(c)
      PROVE  Goal
  BY <1>16, Zenon DEF Remove
<1>17. ASSUME NEW c \in Containers, Learn(c)
      PROVE  Goal
  BY <1>17, Zenon DEF Learn
<1>18. ASSUME NEW c \in Containers, Drop(c)
      PROVE  Goal
  BY <1>18, Zenon DEF Drop
<1>19. CASE UNCHANGED vars
  BY <1>19, Zenon DEF vars
<1> HIDE DEF Inv, TypeOK, Holding, Origin, Has
<1> QED
  BY <1>1, <1>2, <1>3, <1>4, <1>5, <1>6, <1>7, <1>8, <1>9,
     <1>10, <1>11, <1>12, <1>13, <1>14, <1>15, <1>16, <1>17, <1>18, <1>19, ZenonT(60) DEF Next,
     Attempt, RenameStep

LEMMA Selected ==
  ASSUME Inv, NEW r \in Requests, NEW n \in Nodes, Select(r, n)
  PROVE  \A s \in Requests, m \in Nodes : Has(s, m)' => Has(s, m) \/ (s = r /\ m = n)
BY Zenon DEF Inv, TypeOK, Has, Select, world, request

(* Every request that has a place on a node is counted there when another  *)
(* one selects its node, if no reservation is too large to be added.       *)
Room == \A s \in Requests, n \in Nodes : pending[s] = n => Memory[s] =< Total[n]

Weighed == Strategy # "random" \/ \A s \in Requests, n \in Nodes : Memory[s] =< Total[n]

LEMMA Counted ==
  ASSUME Inv, Room, NEW r \in Requests, pc[r] = "select",
         NEW s \in Requests, NEW n \in Nodes, Has(s, n)
  PROVE  (\E c \in Resident(n, seen) : of[c] = s) \/ s \in Added(n)
<1>1. CASE pending[s] = n
  BY <1>1, Zenon DEF Room, Added
<1>2. CASE pending[s] # n
  <2>1. made[s] # None /\ made[s] \in live /\ host[made[s]] = n
    BY <1>2, Zenon DEF Has
  <2>2. pending[s] = None
    BY <1>2, <2>1, NoneAssumption, Zenon DEF Inv, TypeOK, Held, Holding, Reserved
  <2>3. made[s] \in seen /\ of[made[s]] = s
    BY <2>1, <2>2, Zenon DEF Inv, Listed, Holding
  <2> QED
    BY <2>1, <2>3, Zenon DEF Resident
<1> QED
  BY <1>1, <1>2, Zenon

LEMMA RoomStep ==
  ASSUME Weighed, Inv, Room, [Next]_vars
  PROVE  Room'
<1>1. pending' = pending \/ (\E r \in Requests : pending' = [pending EXCEPT ![r] = None])
        \/ \E r \in Requests, n \in Nodes : Select(r, n)
  BY DEF Next, vars, Attempt, Retry, RenameStep, CheckCaches, CheckPending,
         ListContainers, UsedMemory, SelectFails, Create, CreateFails,
         Refresh, Report, Release, RetryOS, RetryImage, RetryLoop, GiveUp, Again, Return,
         RenameCheck, RenameCall, RenameRefresh, Remove, Learn, Drop
<1>2. ASSUME NEW r \in Requests, NEW n \in Nodes, Select(r, n)
      PROVE  Room'
  <2>1. Memory[r] =< Total[n]
    BY <1>2, Zenon DEF Weighed, Select, Accepts, weighNodes
  <2> QED
    BY <1>2, <2>1, SMTT(60) DEF Room, Select, Inv, TypeOK
<1>3. ASSUME NEW r \in Requests, pending' = [pending EXCEPT ![r] = None]
      PROVE  Room'
  BY <1>3, NoneAssumption, SMTT(60) DEF Room, Inv, TypeOK
<1>4. CASE pending' = pending
  BY <1>4, Zenon DEF Room
<1> QED
  BY <1>1, <1>2, <1>3, <1>4, ZenonT(60)

LEMMA RoomInit == Init => Room
BY NoneAssumption DEF Init, Room

-----------------------------------------------------------------------------
(* Ports.                                                                  *)
Apart == \A n \in Nodes : \A r, s \in Requests \ HostMode :
  Has(r, n) /\ Has(s, n) /\ Port[r] = Port[s] /\ Port[r] # None => r = s

LEMMA ApartStep ==
  ASSUME Inv, Room, Apart, [Next]_vars
  PROVE  Apart'
<1>1. CASE \A s \in Requests, m \in Nodes : Has(s, m)' => Has(s, m)
  BY <1>1, Zenon DEF Apart
<1>2. ASSUME NEW r \in Requests, NEW n \in Nodes, Select(r, n)
      PROVE  Apart'
  <2>1. ASSUME NEW s \in Requests \ HostMode, r \notin HostMode, Has(s, n),
               Port[r] = Port[s], Port[r] # None
        PROVE  FALSE
    <3>1. (\E c \in Resident(n, seen) : of[c] = s) \/ s \in Added(n)
      BY <1>2, <2>1, Counted, Zenon DEF Select
    <3>2. PortFilter(r, n)
      BY <1>2, Zenon DEF Select, Accepts
    <3> QED
      BY <2>1, <3>1, <3>2, Zenon DEF PortFilter
  <2> QED
    BY <1>2, <2>1, Selected DEF Apart
<1> QED
  BY <1>1, <1>2, Gains, Zenon

(* A container is where the request that made it has its place.            *)
LEMMA PlacedHas ==
  ASSUME Inv, NEW n \in Nodes
  PROVE  \A r \in Placed(n) : r \in Requests /\ Has(r, n)
BY NoneAssumption DEF Inv, TypeOK, Origin, Placed, Mine, Has

(* PortFilter: no node is given two containers of one published port, for  *)
(* any number of requests, if the strategy weighs the nodes or no request  *)
(* is larger than a node.                                                  *)
THEOREM PortsOnce ==
  ASSUME Weighed
  PROVE  Spec => []BridgePortOnce
<1>1. Init => Room /\ Apart
  BY RoomInit, NoneAssumption DEF Init, Apart, Has
<1>2. Inv /\ Room /\ Apart /\ [Next]_vars => Room' /\ Apart'
  BY RoomStep, ApartStep, Zenon
<1>3. Inv /\ Apart => BridgePortOnce
  BY PlacedHas, Zenon DEF Apart, BridgePortOnce, PortOnce
<1> QED
  BY <1>1, <1>2, <1>3, Invariance, PTL DEF Spec

-----------------------------------------------------------------------------
(* Slots.                                                                  *)
Having(n) == {s \in Requests : Has(s, n)}

WithinSlots == \A n \in Nodes : Cardinality(Having(n)) =< Slots[n]

LEMMA HavingFinite ==
  \A n \in Nodes : IsFiniteSet(Having(n)) /\ Cardinality(Having(n)) \in Nat
BY RequestAssumption, FS_Subset, FS_CardinalityType, Zenon DEF Having

LEMMA UnionBound ==
  ASSUME NEW S, NEW T, IsFiniteSet(S), IsFiniteSet(T)
  PROVE  /\ IsFiniteSet(S \cup T)
         /\ Cardinality(S \cup T) =< Cardinality(S) + Cardinality(T)
<1>1. IsFiniteSet(S \cup T)
  BY FS_Union, Zenon
<1>2. Cardinality(S \cup T) = Cardinality(S) + Cardinality(T) - Cardinality(S \cap T)
  BY FS_Union, Zenon
<1>3. IsFiniteSet(S \cap T)
  BY FS_Intersection, Zenon
<1>4. Cardinality(S) \in Nat /\ Cardinality(T) \in Nat /\ Cardinality(S \cap T) \in Nat
  BY <1>3, FS_CardinalityType, Zenon
<1> QED
  BY <1>1, <1>2, <1>4

LEMMA AddBound ==
  ASSUME NEW S, NEW x, IsFiniteSet(S)
  PROVE  /\ IsFiniteSet(S \cup {x})
         /\ Cardinality(S \cup {x}) =< Cardinality(S) + 1
<1>1. IsFiniteSet({x}) /\ Cardinality({x}) = 1
  BY FS_Singleton, Zenon
<1> QED
  BY <1>1, UnionBound, Zenon

(* What the filter counts is at least the number of requests with a place. *)
LEMMA CountedAll ==
  ASSUME Inv, Room, NEW r \in Requests, pc[r] = "select", NEW n \in Nodes
  PROVE  Cardinality(Having(n)) =< Cardinality(Resident(n, seen)) + Cardinality(Added(n))
<1> DEFINE R == Resident(n, seen)
           I == {of[c] : c \in R}
<1>1. IsFiniteSet(R) /\ Cardinality(R) \in Nat
  BY FS_Subset, FS_CardinalityType, Zenon DEF Resident, Inv, Few
<1>2. IsFiniteSet(Added(n)) /\ Cardinality(Added(n)) \in Nat
  BY RequestAssumption, FS_Subset, FS_CardinalityType, Zenon DEF Added
<1>3. IsFiniteSet(I) /\ Cardinality(I) =< Cardinality(R) /\ Cardinality(I) \in Nat
  <2>1. I = {[c \in R |-> of[c]][x] : x \in R}
    BY Zenon
  <2>2. IsFiniteSet(I) /\ Cardinality(I) =< Cardinality(R)
    <3> DEFINE f == [c \in R |-> of[c]]
    <3>1. f \in Surjection(R, I)
      BY Zenon DEF Surjection
    <3> QED
      BY <1>1, <3>1, FS_Surjection, Zenon
  <2> QED
    BY <2>2, FS_CardinalityType, Zenon
<1>4. Having(n) \subseteq I \cup Added(n)
  BY Counted, Zenon DEF Having
<1>5. /\ IsFiniteSet(I \cup Added(n))
      /\ Cardinality(I \cup Added(n)) =< Cardinality(I) + Cardinality(Added(n))
  BY <1>2, <1>3, UnionBound, Zenon
<1>6. Cardinality(Having(n)) =< Cardinality(I \cup Added(n))
  BY <1>4, <1>5, FS_Subset, Zenon
<1>7. Cardinality(I \cup Added(n)) \in Nat /\ Cardinality(Having(n)) \in Nat
  BY <1>5, FS_CardinalityType, HavingFinite, Zenon
<1> HIDE DEF I, R
<1>8. Cardinality(R) = Cardinality(Resident(n, seen))
  BY Zenon DEF R
<1> QED
  BY <1>1, <1>2, <1>3, <1>5, <1>6, <1>7, <1>8

LEMMA SlotsStep ==
  ASSUME Inv, Room, WithinSlots, [Next]_vars
  PROVE  WithinSlots'
<1>1. CASE \A s \in Requests, m \in Nodes : Has(s, m)' => Has(s, m)
  <2> SUFFICES ASSUME NEW n \in Nodes PROVE Cardinality(Having(n)') =< Slots[n]
    BY Zenon DEF WithinSlots
  <2>1. Having(n)' \subseteq Having(n)
    BY <1>1, Zenon DEF Having
  <2>2. IsFiniteSet(Having(n)') /\ Cardinality(Having(n)') =< Cardinality(Having(n))
    BY <2>1, HavingFinite, FS_Subset, Zenon
  <2>3. Cardinality(Having(n)') \in Nat /\ Cardinality(Having(n)) \in Nat
    BY <2>2, HavingFinite, FS_CardinalityType, Zenon
  <2> QED
    BY <2>2, <2>3, NodeAssumption DEF WithinSlots
<1>2. ASSUME NEW r \in Requests, NEW n \in Nodes, Select(r, n)
      PROVE  WithinSlots'
  <2> SUFFICES ASSUME NEW m \in Nodes PROVE Cardinality(Having(m)') =< Slots[m]
    BY Zenon DEF WithinSlots
  <2>0. Cardinality(Having(m)) \in Nat /\ Cardinality(Having(n)) \in Nat
    BY HavingFinite, Zenon
  <2>1. CASE m # n
    <3>1. Having(m)' \subseteq Having(m)
      BY <1>2, <2>1, Selected, Zenon DEF Having
    <3>2. IsFiniteSet(Having(m)') /\ Cardinality(Having(m)') =< Cardinality(Having(m))
      BY <3>1, HavingFinite, FS_Subset, Zenon
    <3>3. Cardinality(Having(m)') \in Nat
      BY <3>2, FS_CardinalityType, Zenon
    <3> QED
      BY <2>0, <3>2, <3>3, NodeAssumption DEF WithinSlots
  <2>2. CASE m = n
    <3>1. Having(n)' \subseteq Having(n) \cup {r}
      BY <1>2, Selected, Zenon DEF Having
    <3>2. /\ IsFiniteSet(Having(n) \cup {r})
          /\ Cardinality(Having(n) \cup {r}) =< Cardinality(Having(n)) + 1
      BY HavingFinite, AddBound, Zenon
    <3>3. IsFiniteSet(Having(n)') /\ Cardinality(Having(n)') =< Cardinality(Having(n) \cup {r})
      BY <3>1, <3>2, FS_Subset, Zenon
    <3>4. Cardinality(Having(n)') \in Nat /\ Cardinality(Having(n) \cup {r}) \in Nat
      BY <3>2, <3>3, FS_CardinalityType, Zenon
    <3>5. Cardinality(Having(n)) < Slots[n]
      <4>1. Cardinality(Having(n)) =< Cardinality(Resident(n, seen)) + Cardinality(Added(n))
        BY <1>2, CountedAll, Zenon DEF Select
      <4>2. Cardinality(Resident(n, seen)) + Cardinality(Added(n)) < Slots[n]
        BY <1>2, Zenon DEF Select, Accepts, SlotsFilter
      <4>3. Cardinality(Resident(n, seen)) \in Nat /\ Cardinality(Added(n)) \in Nat
        BY RequestAssumption, FS_Subset, FS_CardinalityType, Zenon DEF Resident, Added, Inv, Few
      <4> QED
        BY <2>0, <4>1, <4>2, <4>3, NodeAssumption
    <3> QED
      BY <2>0, <2>2, <3>2, <3>3, <3>4, <3>5, NodeAssumption
  <2> QED
    BY <2>1, <2>2, Zenon
<1> QED
  BY <1>1, <1>2, Gains, Zenon

(* SlotsFilter: however many requests are under way, no node is given more *)
(* containers than its label containerslots says, if the strategy weighs   *)
(* the nodes or no request is larger than a node.                          *)
THEOREM SlotsBound ==
  ASSUME Weighed
  PROVE  Spec => []SlotsRespected
<1>1. Init => Room /\ WithinSlots
  <2> SUFFICES ASSUME Init, NEW n \in Nodes PROVE Cardinality(Having(n)) =< Slots[n]
    BY RoomInit, Zenon DEF WithinSlots
  <2>1. Having(n) = {}
    BY NoneAssumption, Zenon DEF Init, Having, Has
  <2> QED
    BY <2>1, FS_EmptySet, NodeAssumption
<1>2. Inv /\ Room /\ WithinSlots /\ [Next]_vars => Room' /\ WithinSlots'
  BY RoomStep, SlotsStep, Zenon
<1>3. Inv /\ WithinSlots => SlotsRespected
  <2> SUFFICES ASSUME Inv, WithinSlots, NEW n \in Nodes
               PROVE  Cardinality(Placed(n)) =< Slots[n]
    BY Zenon DEF SlotsRespected
  <2>1. Placed(n) \subseteq Having(n)
    BY PlacedHas, Zenon DEF Having
  <2>2. IsFiniteSet(Placed(n)) /\ Cardinality(Placed(n)) =< Cardinality(Having(n))
    BY <2>1, HavingFinite, FS_Subset, Zenon
  <2>3. Cardinality(Placed(n)) \in Nat /\ Cardinality(Having(n)) \in Nat
    BY <2>2, HavingFinite, FS_CardinalityType, Zenon
  <2> QED
    BY <2>2, <2>3, NodeAssumption DEF WithinSlots
<1> QED
  BY <1>1, <1>2, <1>3, Invariance, PTL DEF Spec
-----------------------------------------------------------------------------
(* Names.                                                                  *)

(* A container that nobody renames has the name asked for, at its daemon   *)
(* and in the cache.                                                       *)
Named ==
  /\ \A c \in Containers : of[c] # None /\ ~Renamed(c) =>
       /\ name[c] = NameOf[of[c]]
       /\ c \in cached => cachedName[c] = NameOf[of[c]]
  /\ \A w \in Renamers : IF rename[w].pc = "idle" THEN rename[w].c = None
                                                 ELSE rename[w].c \in Containers

\* s has a container of the name it asked for, or will have one.
Owns(s) ==
  pending[s] # None \/ (made[s] # None /\ made[s] \in live /\ ~Renamed(made[s]))

(* A request that has looked through the caches can only meet its name in  *)
(* a reservation, and one that has looked there too does not meet it.      *)
Clear == \A r, s \in Requests :
  NameOf[r] = NameOf[s] /\ NameOf[r] # None =>
    /\ pc[r] \in Locked /\ Owns(s) => pending[s] # None
    /\ pc[r] \in {"list", "weigh", "select"} => pending[s] = None

Unshared == \A r, s \in Requests :
  NameOf[r] = NameOf[s] /\ NameOf[r] # None /\ Owns(r) /\ Owns(s) => r = s

NameInv == Named /\ Clear /\ Unshared

(* Renaming changes nothing but the container that is renamed.             *)
LEMMA RenameEffect ==
  ASSUME Inv, Named, NEW w \in Renamers, RenameStep(w)
  PROVE  /\ UNCHANGED <<of, pending, made, live, pc>>
         /\ Named'
         /\ \A c \in Containers : Renamed(c) => Renamed(c)'
<1> USE NoneAssumption DEF Inv, TypeOK, Rename, world, caches, listing, request
<1> DEFINE Effect ==
      /\ UNCHANGED <<of, pending, made, live, pc>>
      /\ rename'[w].c \in Containers /\ rename'[w].pc # "idle"
      /\ rename[w].c # None => rename'[w].c = rename[w].c
      /\ \A v \in Renamers : v # w => rename'[v] = rename[v]
      /\ \A c \in Containers : c # rename'[w].c =>
           /\ name'[c] = name[c] /\ cachedName'[c] = cachedName[c]
           /\ c \in cached' => c \in cached
<1>1. Effect
  <2>1. ASSUME NEW c \in Containers, NEW x \in Names, RenameCheck(w, c, x)
        PROVE  Effect
    BY <2>1, Zenon DEF RenameCheck, Named
  <2>2. CASE RenameCall(w)
    <3> DEFINE ok == rename[w].c \in live /\ Free(rename[w].to, host[rename[w].c])
    <3>1. rename[w].pc = "rename" /\ rename[w].c \in Containers
      BY <2>2, SMTT(60) DEF RenameCall, Named
    <3>2. /\ UNCHANGED <<of, pending, made, live, pc, cached, cachedName>>
          /\ name' = name \/ name' = [name EXCEPT ![rename[w].c] = rename[w].to]
          /\ rename' = [rename EXCEPT ![w] = [pc |-> IF ok THEN "refresh" ELSE "done",
                                              c |-> rename[w].c, to |-> None]]
      BY <2>2, SMTT(60) DEF RenameCall
    <3> HIDE DEF ok
    <3> QED
      BY <3>1, <3>2, SMTT(60)
  <2>3. CASE RenameRefresh(w)
    BY <2>3 DEF RenameRefresh, RefreshOf, Named
  <2> QED
    BY <2>1, <2>2, <2>3, SMTT(60) DEF RenameStep
<1>2. \A c \in Containers : Renamed(c) => Renamed(c)'
  BY <1>1 DEF Renamed
<1>3. \A c \in Containers : c = rename'[w].c => Renamed(c)'
  BY <1>1, Zenon DEF Renamed
<1>4. \A v \in Renamers : IF rename'[v].pc = "idle" THEN rename'[v].c = None
                                                  ELSE rename'[v].c \in Containers
  BY <1>1, Zenon DEF Named
<1>5. \A c \in Containers : of'[c] # None /\ ~Renamed(c)' =>
        name'[c] = NameOf[of'[c]] /\ (c \in cached' => cachedName'[c] = NameOf[of'[c]])
  BY <1>1, <1>2, <1>3, Zenon DEF Named
<1> QED
  BY <1>1, <1>2, <1>4, <1>5, SMTT(60) DEF Named

LEMMA NamedStep ==
  ASSUME Inv, NameInv, [Next]_vars
  PROVE  Named'
<1> USE NoneAssumption, RequestAssumption DEF Inv, NameInv, Renamed, world, caches, listing,
        request, TypeOK, Holding, Origin, Named
<1>1. ASSUME NEW r \in Requests, CheckCaches(r)
      PROVE  Named'
  BY <1>1, SMTT(60) DEF CheckCaches, Refuse, Proceed
<1>2. ASSUME NEW r \in Requests, CheckPending(r)
      PROVE  Named'
  BY <1>2 DEF CheckPending, Refuse, Proceed
<1>3. ASSUME NEW r \in Requests, ListContainers(r)
      PROVE  Named'
  BY <1>3 DEF ListContainers
<1>4. ASSUME NEW r \in Requests, UsedMemory(r)
      PROVE  Named'
  BY <1>4 DEF UsedMemory
<1>5. ASSUME NEW r \in Requests, SelectFails(r)
      PROVE  Named'
  BY <1>5, Zenon DEF SelectFails, Refuse
<1>6. ASSUME NEW r \in Requests, NEW n \in Nodes, Select(r, n)
      PROVE  Named'
  BY <1>6 DEF Select
<1>7. ASSUME NEW r \in Requests, NEW e \in Errors \ {"none"}, CreateFails(r, e)
      PROVE  Named'
  BY <1>7, SMTT(60) DEF CreateFails
<1>8. ASSUME NEW r \in Requests, NEW c \in Containers, NEW answered \in BOOLEAN,
             Create(r, c, answered)
      PROVE  Named'
  BY <1>8, SMTT(60) DEF Create
<1>9. ASSUME NEW r \in Requests, Refresh(r)
      PROVE  Named'
  BY <1>9 DEF Refresh, RefreshOf
<1>10. ASSUME NEW r \in Requests, Report(r)
      PROVE  Named'
  BY <1>10, SMTT(60) DEF Report
<1>11. ASSUME NEW r \in Requests, Release(r)
      PROVE  Named'
  BY <1>11, SMTT(60) DEF Release, Return
<1>12. ASSUME NEW r \in Requests, Retry(r)
      PROVE  Named'
  BY <1>12, SMTT(60) DEF Retry, RetryOS, RetryImage, RetryLoop, GiveUp, Again, Return
<1>13. ASSUME NEW c \in Containers, Remove(c)
      PROVE  Named'
  BY <1>13, Zenon DEF Remove
<1>14. ASSUME NEW c \in Containers, Learn(c)
      PROVE  Named'
  BY <1>14, SMTT(60) DEF Learn
<1>15. ASSUME NEW c \in Containers, Drop(c)
      PROVE  Named'
  BY <1>15, SMTT(60) DEF Drop
<1>16. ASSUME NEW w \in Renamers, RenameStep(w)
      PROVE  Named'
  BY <1>16, RenameEffect, Zenon
<1>17. CASE UNCHANGED vars
  BY <1>17, Zenon DEF vars
<1> HIDE DEF Inv, NameInv, Renamed, TypeOK, Holding, Origin, Named
<1> QED
  BY <1>1, <1>2, <1>3, <1>4, <1>5, <1>6, <1>7, <1>8,
     <1>9, <1>10, <1>11, <1>12, <1>13, <1>14, <1>15,
     <1>16, <1>17, SMTT(60) DEF Next, Attempt

LEMMA ClearStep ==
  ASSUME Inv, NameInv, [Next]_vars
  PROVE  Clear'
<1> USE NoneAssumption, RequestAssumption DEF Inv, NameInv, Renamed, world, caches, listing,
        request, TypeOK, Held, Holding, Origin, Kept, Clear, Owns, Locked, Reserved,
        Pcs
<1>1. ASSUME NEW r \in Requests, CheckCaches(r)
      PROVE  Clear'
  <2>1. pending' = pending /\ made' = made /\ live' = live /\ rename' = rename
    BY <1>1, SMTT(60) DEF CheckCaches
  <2>2. CASE InCaches(NameOf[r])
    BY <2>1, <2>2, <1>1, SMTT(60) DEF CheckCaches, Refuse
  <2>3. CASE ~InCaches(NameOf[r])
    <3>1. ASSUME NEW s \in Requests, NameOf[r] = NameOf[s], NameOf[r] # None, Owns(s),
                 pending[s] = None
          PROVE  FALSE
      <4>1. made[s] \in cached /\ of[made[s]] = s /\ made[s] \in Containers
        BY <3>1, SMTT(60)
      <4>2. cachedName[made[s]] = NameOf[s]
        BY <4>1, <3>1 DEF Named
      <4> QED
        BY <2>3, <3>1, <4>1, <4>2, SMTT(60) DEF InCaches
    <3>2. pc' = [pc EXCEPT ![r] = "pending"]
      BY <2>3, <1>1, Zenon DEF CheckCaches, Proceed
    <3> QED
      BY <2>1, <3>1, <3>2, SMTT(60)
  <2> QED
    BY <2>2, <2>3, Zenon
<1>2. ASSUME NEW r \in Requests, CheckPending(r)
      PROVE  Clear'
  <2>1. pending' = pending /\ made' = made /\ live' = live /\ pc[r] = "pending" /\ rename' = rename
    BY <1>2, Zenon DEF CheckPending
  <2>2. CASE InPending(NameOf[r])
    BY <2>1, <2>2, <1>2, SMTT(60) DEF CheckPending, Refuse
  <2>3. CASE ~InPending(NameOf[r])
    <3>1. pc' = [pc EXCEPT ![r] = "list"]
      BY <2>3, <1>2, SMTT(60) DEF CheckPending, Proceed
    <3>2. \A s \in Requests : NameOf[r] = NameOf[s] /\ NameOf[r] # None => pending[s] = None
      BY <2>3, SMTT(60) DEF InPending
    <3> QED
      BY <2>1, <3>1, <3>2, SMTT(60)
  <2> QED
    BY <2>2, <2>3, Zenon
<1>3. ASSUME NEW r \in Requests, ListContainers(r)
      PROVE  Clear'
  BY <1>3, SMTT(60) DEF ListContainers
<1>4. ASSUME NEW r \in Requests, UsedMemory(r)
      PROVE  Clear'
  BY <1>4, SMTT(60) DEF UsedMemory
<1>5. ASSUME NEW r \in Requests, SelectFails(r)
      PROVE  Clear'
  BY <1>5, SMTT(60) DEF SelectFails, Refuse
<1>6. ASSUME NEW r \in Requests, NEW n \in Nodes, Select(r, n)
      PROVE  Clear'
  BY <1>6, SMTT(60) DEF Select
<1>7. ASSUME NEW r \in Requests, NEW e \in Errors \ {"none"}, CreateFails(r, e)
      PROVE  Clear'
  BY <1>7, SMTT(60) DEF CreateFails
<1>8. ASSUME NEW r \in Requests, NEW c \in Containers, NEW answered \in BOOLEAN,
             Create(r, c, answered)
      PROVE  Clear'
  BY <1>8, SMTT(60) DEF Create
<1>9. ASSUME NEW r \in Requests, Refresh(r)
      PROVE  Clear'
  BY <1>9 DEF Refresh, RefreshOf
<1>10. ASSUME NEW r \in Requests, Report(r)
      PROVE  Clear'
  <2>1. /\ UNCHANGED <<pending, live, rename>>
        /\ pc[r] = "report" /\ pc' = [pc EXCEPT ![r] = "release"]
    BY <1>10, Zenon DEF Report
  <2>2. \A s \in Requests : made'[s] # None => made'[s] = made[s]
    BY <1>10 DEF Report
  <2>3. \A s \in Requests : Owns(s)' => Owns(s)
    BY <2>1, <2>2, SMTT(60)
  <2> HIDE DEF Owns
  <2> QED
    BY <2>1, <2>3
<1>11. ASSUME NEW r \in Requests, Release(r)
      PROVE  Clear'
  BY <1>11, SMTT(60) DEF Release, Return
<1>12. ASSUME NEW r \in Requests, Retry(r)
      PROVE  Clear'
  BY <1>12, SMTT(60) DEF Retry, RetryOS, RetryImage, RetryLoop, GiveUp, Again, Return
<1>13. ASSUME NEW c \in Containers, Remove(c)
      PROVE  Clear'
  BY <1>13, SMTT(60) DEF Remove
<1>14. ASSUME NEW c \in Containers, Learn(c)
      PROVE  Clear'
  BY <1>14, SMTT(60) DEF Learn
<1>15. ASSUME NEW c \in Containers, Drop(c)
      PROVE  Clear'
  BY <1>15, SMTT(60) DEF Drop
<1>16. ASSUME NEW w \in Renamers, RenameStep(w)
      PROVE  Clear'
  <2> HIDE DEF Renamed, Inv
  <2>1. UNCHANGED <<pending, made, live, pc>> /\ \A c \in Containers : Renamed(c) => Renamed(c)'
    BY <1>16, RenameEffect, Zenon
  <2>2. \A s \in Requests : Owns(s)' => Owns(s)
    BY <2>1, SMTT(60) DEF Inv
  <2> HIDE DEF Owns
  <2> QED
    BY <2>1, <2>2, Zenon
<1>17. CASE UNCHANGED vars
  BY <1>17, SMTT(60) DEF vars
<1> HIDE DEF Inv, NameInv, Renamed, TypeOK, Held, Holding, Origin, Kept, Clear, Owns, Locked,
        Reserved, Pcs
<1> QED
  BY <1>1, <1>2, <1>3, <1>4, <1>5, <1>6, <1>7, <1>8,
     <1>9, <1>10, <1>11, <1>12, <1>13, <1>14, <1>15,
     <1>16, <1>17, SMTT(60) DEF Next, Attempt

LEMMA UnsharedStep ==
  ASSUME Inv, NameInv, [Next]_vars
  PROVE  Unshared'
<1> USE NoneAssumption, RequestAssumption DEF Inv, NameInv, Renamed, world, caches, listing,
        request, TypeOK, Held, Holding, Origin, Unshared, Clear, Owns, Locked,
        Reserved, Pcs
<1>1. ASSUME NEW r \in Requests, CheckCaches(r)
      PROVE  Unshared'
  BY <1>1, SMTT(60) DEF CheckCaches, Refuse, Proceed
<1>2. ASSUME NEW r \in Requests, CheckPending(r)
      PROVE  Unshared'
  BY <1>2, SMTT(60) DEF CheckPending, Refuse, Proceed
<1>3. ASSUME NEW r \in Requests, ListContainers(r)
      PROVE  Unshared'
  BY <1>3, SMTT(60) DEF ListContainers
<1>4. ASSUME NEW r \in Requests, UsedMemory(r)
      PROVE  Unshared'
  BY <1>4, SMTT(60) DEF UsedMemory
<1>5. ASSUME NEW r \in Requests, SelectFails(r)
      PROVE  Unshared'
  BY <1>5, SMTT(60) DEF SelectFails, Refuse
<1>6. ASSUME NEW r \in Requests, NEW n \in Nodes, Select(r, n)
      PROVE  Unshared'
  BY <1>6, SMTT(60) DEF Select
<1>7. ASSUME NEW r \in Requests, NEW e \in Errors \ {"none"}, CreateFails(r, e)
      PROVE  Unshared'
  BY <1>7, SMTT(60) DEF CreateFails
<1>8. ASSUME NEW r \in Requests, NEW c \in Containers, NEW answered \in BOOLEAN,
             Create(r, c, answered)
      PROVE  Unshared'
  <2>1. pending' = pending /\ pending[r] # None /\ rename' = rename
    BY <1>8, SMTT(60) DEF Create
  <2>2. \A s \in Requests : s # r => made'[s] = made[s]
    BY <1>8, SMTT(60) DEF Create
  <2>3. \A s \in Requests : s # r /\ made[s] # None => made[s] # c
    BY <1>8, SMTT(60) DEF Create
  <2>4. live' = live \cup {c}
    BY <1>8, Zenon DEF Create
  <2>5. \A s \in Requests : Owns(s)' => Owns(s)
    BY <2>1, <2>2, <2>3, <2>4, ZenonT(60)
  <2> QED
    BY <2>5, SMTT(60)
<1>9. ASSUME NEW r \in Requests, Refresh(r)
      PROVE  Unshared'
  BY <1>9, SMTT(60) DEF Refresh, RefreshOf
<1>10. ASSUME NEW r \in Requests, Report(r)
      PROVE  Unshared'
  <2>1. pending' = pending /\ live' = live /\ rename' = rename
    BY <1>10, SMTT(60) DEF Report
  <2>2. \A s \in Requests : made'[s] # None => made'[s] = made[s]
    BY <1>10 DEF Report
  <2>3. \A s \in Requests : Owns(s)' => Owns(s)
    BY <2>1, <2>2, ZenonT(60)
  <2> QED
    BY <2>3, SMTT(60)
<1>11. ASSUME NEW r \in Requests, Release(r)
      PROVE  Unshared'
  BY <1>11, SMTT(60) DEF Release, Return
<1>12. ASSUME NEW r \in Requests, Retry(r)
      PROVE  Unshared'
  BY <1>12, SMTT(60) DEF Retry, RetryOS, RetryImage, RetryLoop, GiveUp, Again, Return
<1>13. ASSUME NEW c \in Containers, Remove(c)
      PROVE  Unshared'
  BY <1>13, SMTT(60) DEF Remove
<1>14. ASSUME NEW c \in Containers, Learn(c)
      PROVE  Unshared'
  BY <1>14, SMTT(60) DEF Learn
<1>15. ASSUME NEW c \in Containers, Drop(c)
      PROVE  Unshared'
  BY <1>15, SMTT(60) DEF Drop
<1>16. ASSUME NEW w \in Renamers, RenameStep(w)
      PROVE  Unshared'
  <2> HIDE DEF Renamed, Inv
  <2>1. UNCHANGED <<pending, made, live, pc>> /\ \A c \in Containers : Renamed(c) => Renamed(c)'
    BY <1>16, RenameEffect, Zenon
  <2>2. \A s \in Requests : Owns(s)' => Owns(s)
    BY <2>1, Zenon DEF Inv
  <2> HIDE DEF Owns
  <2> QED
    BY <2>1, <2>2, Zenon
<1>17. CASE UNCHANGED vars
  BY <1>17, SMTT(60) DEF vars
<1> HIDE DEF Inv, NameInv, Renamed, TypeOK, Held, Holding, Origin, Unshared, Clear, Owns,
        Locked, Reserved, Pcs
<1> QED
  BY <1>1, <1>2, <1>3, <1>4, <1>5, <1>6, <1>7, <1>8,
     <1>9, <1>10, <1>11, <1>12, <1>13, <1>14, <1>15,
     <1>16, <1>17, SMTT(60) DEF Next, Attempt

(* checkNameUniqueness under the lock of the scheduler: for any number of  *)
(* requests, renames and nodes, a name is given to one container, not      *)
(* counting those that are renamed.                                        *)
THEOREM NamesOnce == Spec => []NameOnce
<1>1. Init => NameInv
  <2> SUFFICES ASSUME Init PROVE NameInv
    BY Zenon
  <2>1. /\ \A r \in Requests : pc[r] = "start" /\ pending[r] = None /\ made[r] = None
        /\ \A c \in Containers : of[c] = None
    BY Zenon DEF Init
  <2>2. \A w \in Renamers : rename[w].pc = "idle" /\ rename[w].c = None
    BY Zenon DEF Init
  <2> QED
    BY <2>1, <2>2, NoneAssumption, Zenon DEF NameInv, Named, Clear, Unshared, Owns, Locked
<1>2. Inv /\ NameInv /\ [Next]_vars => NameInv'
  BY NamedStep, ClearStep, UnsharedStep, SMTT(60) DEF NameInv
<1>3. Inv /\ NameInv => NameOnce
  <2> SUFFICES ASSUME Inv, NameInv PROVE NameOnce
    BY Zenon
  <2>1. \A c \in Mine : ~Renamed(c) =>
          /\ c \in Containers /\ of[c] \in Requests /\ made[of[c]] = c
          /\ Owns(of[c]) /\ name[c] = NameOf[of[c]]
    BY NoneAssumption, SMTT(60) DEF Inv, TypeOK, Origin, NameInv, Named, Owns, Mine
  <2>2. \A c, d \in Mine :
          name[c] = name[d] /\ name[c] # None /\ ~Renamed(c) /\ ~Renamed(d) => c = d
    <3> SUFFICES ASSUME NEW c \in Mine, NEW d \in Mine, name[c] = name[d],
                        name[c] # None, ~Renamed(c), ~Renamed(d)
                 PROVE  c = d
      BY Zenon
    <3>1. of[c] = of[d]
      BY <2>1 DEF NameInv, Unshared
    <3> QED
      BY <2>1, <3>1, ZenonT(60)
  <2>3. \A c \in Mine, r \in Requests :
          pending[r] # None /\ NameOf[r] = name[c] /\ name[c] # None /\ ~Renamed(c) =>
            of[c] = r
    BY <2>1 DEF NameInv, Unshared, Owns
  <2> QED
    BY <2>2, <2>3, Zenon DEF NameOnce
<1> QED
  BY <1>1, <1>2, <1>3, Invariance, PTL DEF Spec
=============================================================================
