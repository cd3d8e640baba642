----------------------- MODULE EngineMembershipProofs -----------------------
(***************************************************************************)
(* Proofs about EngineMembership, for any addresses, daemon IDs, Engine    *)
(* objects and validators.                                                 *)
(***************************************************************************)
EXTENDS EngineMembership, TLAPS

(* What the goroutines know of the engine they have in hand.               *)
Hands ==
  /\ dstep \in {"disconnect", "delete"} =>
       at \in Addrs \ currentEntries /\ found \in Objs /\ addr[found] = at
  /\ dstep = "insert" =>
       /\ at \in currentEntries /\ found \in Objs /\ addr[found] = at
       /\ pendingEngines[at] = None /\ ~Registered(at)
  /\ \A v \in Validators : pc[v] # "free" =>
       eng[v] \in Objs /\ addr[eng[v]] \in Addrs
  /\ \A v \in Validators : pc[v] \in {"list", "commit"} => id[eng[v]] \in Hosts
  /\ \A e \in pEngines : addr[e] \in Addrs
  /\ \A e \in Objs : loop[e] # "off" => addr[e] \in Addrs

(* The tables index engines by their own address and ID.                   *)
Keys ==
  /\ \A a \in Addrs : pendingEngines[a] # None => addr[pendingEngines[a]] = a
  /\ \A h \in Hosts, a \in Addrs :
       engines[<<h, a>>] # None =>
         id[engines[<<h, a>>]] = h /\ addr[engines[<<h, a>>]] = a

(* What is left to do of a Diff agrees with the entries it led to.         *)
Work ==
  /\ removed \cap currentEntries = {}
  /\ added \subseteq currentEntries

(* A listed address is in a table or about to be.                          *)
Covered ==
  \A a \in currentEntries :
    \/ a \in added
    \/ dstep = "insert" /\ at = a
    \/ pendingEngines[a] # None
    \/ Registered(a)

Inv == TypeOK /\ Hands /\ Keys /\ Work /\ AddrOnce /\ Covered

-----------------------------------------------------------------------------
LEMMA Lookup ==
  ASSUME TypeOK, Keys, NEW a \in Addrs
  PROVE  /\ getEngineByAddr(a) # {} <=> pendingEngines[a] # None \/ Registered(a)
         /\ \A e \in getEngineByAddr(a) : e \in Objs /\ addr[e] = a
<1>1. CASE pendingEngines[a] # None
  BY <1>1 DEF getEngineByAddr, TypeOK, Keys
<1>2. CASE pendingEngines[a] = None
  <2>1. ASSUME NEW e \in getEngineByAddr(a)
        PROVE  Registered(a) /\ e \in Objs /\ addr[e] = a
    <3>1. e \in Objs /\ addr[e] = a
      BY <1>2, <2>1 DEF getEngineByAddr
    <3>2. PICK h \in Hosts, b \in Addrs : engines[<<h, b>>] = e
      BY <1>2, <2>1 DEF getEngineByAddr, IDs
    <3>3. e # None
      BY <3>1, NoneAssumption
    <3>. QED  BY <3>1, <3>2, <3>3 DEF Keys, Registered
  <2>2. ASSUME Registered(a) PROVE getEngineByAddr(a) # {}
    <3>1. PICK h \in Hosts : engines[<<h, a>>] # None
      BY <2>2 DEF Registered
    <3>2. <<h, a>> \in IDs /\ engines[<<h, a>>] \in Objs
      BY <3>1 DEF IDs, TypeOK
    <3>. QED  BY <1>2, <3>1, <3>2 DEF getEngineByAddr, Keys
  <2>. QED  BY <1>2, <2>1, <2>2
<1>. QED  BY <1>1, <1>2

(* A step that leaves the tables, the entries and what is known of engines *)
(* alone, up to engines learning their ID and objects being allocated.     *)
Still ==
  /\ UNCHANGED <<pendingEngines, engines, currentEntries>>
  /\ \A e \in Objs : addr[e] # None => addr'[e] = addr[e]
  /\ \A e \in Objs : id[e] # None => id'[e] = id[e]

LEMMA StillTables ==
  ASSUME Inv, Still
  PROVE  Keys' /\ AddrOnce' /\ \A a \in Addrs : Registered(a)' <=> Registered(a)
<1>1. \A a \in Addrs : Registered(a)' <=> Registered(a)
  BY DEF Still, Registered
<1>2. AddrOnce'
  BY <1>1 DEF Inv, Still, AddrOnce
<1>3. \A a \in Addrs : pendingEngines[a] # None => addr'[pendingEngines[a]] = a
  BY NoneAssumption DEF Inv, Still, Keys, TypeOK
<1>4. ASSUME NEW h \in Hosts, NEW a \in Addrs, engines[<<h, a>>] # None
      PROVE  id'[engines[<<h, a>>]] = h /\ addr'[engines[<<h, a>>]] = a
  <2>1. engines[<<h, a>>] \in Objs
    BY <1>4 DEF Inv, TypeOK, IDs
  <2>. QED  BY <1>4, <2>1, NoneAssumption DEF Inv, Still, Keys
<1>5. Keys'
  BY <1>3, <1>4 DEF Keys, Still
<1>. QED  BY <1>1, <1>2, <1>5

LEMMA DisconnectType ==
  ASSUME TypeOK, NEW e \in Objs, Disconnect(e)
  PROVE  /\ state' \in [Objs -> {"pending", "healthy", "disconnected"}]
         /\ nop' \in [Objs -> BOOLEAN] /\ stopped' \in [Objs -> BOOLEAN]
         /\ crashed' \in BOOLEAN
         /\ UNCHANGED <<addr, id, monitored, loop>>
<1>1. CASE state[e] = "disconnected"
  BY <1>1 DEF Disconnect, TypeOK, objVars
<1>2. CASE state[e] # "disconnected" /\ (stopped[e] \/ ~monitored[e])
  BY <1>2, Zenon DEF Disconnect, TypeOK, objVars
<1>3. CASE state[e] # "disconnected" /\ ~(stopped[e] \/ ~monitored[e])
  BY <1>3, ZenonT(60) DEF Disconnect, TypeOK
<1>. QED  BY <1>1, <1>2, <1>3

-----------------------------------------------------------------------------
(* monitorDiscovery.                                                       *)
LEMMA ReceiveStep == ASSUME Inv, Receive PROVE Inv'
<1>. USE DEF Receive, objVars
<1>1. TypeOK'
  BY DEF Inv, TypeOK
<1>2. \A a \in Addrs : Registered(a)' <=> Registered(a)
  BY DEF Registered
<1>3. Keys' /\ AddrOnce'
  BY <1>2 DEF Inv, Keys, AddrOnce
<1>4. Work' /\ Covered'
  BY <1>2 DEF Inv, Work, Covered, TypeOK
<1>5. Hands'
  BY <1>2 DEF Inv, Hands
<1>. QED  BY <1>1, <1>3, <1>4, <1>5 DEF Inv

LEMMA FindRemovedStep == ASSUME Inv, NEW a \in Addrs, FindRemoved(a) PROVE Inv'
<1>. USE DEF FindRemoved, objVars
<1>1. Still
  BY DEF Still
<1>2. \A e \in getEngineByAddr(a) : e \in Objs /\ addr[e] = a
  BY Lookup DEF Inv
<1>3. TypeOK'
  BY <1>2 DEF Inv, TypeOK
<1>4. Work'
  BY DEF Inv, Work
<1>5. Hands'
  BY <1>1, <1>2, StillTables DEF Inv, Hands, Work
<1>6. Covered'
  BY <1>1, StillTables DEF Inv, Covered, TypeOK
<1>. QED  BY <1>1, <1>3, <1>4, <1>5, <1>6, StillTables DEF Inv

LEMMA DisconnectRemovedStep == ASSUME Inv, DisconnectRemoved PROVE Inv'
<1>. USE DEF DisconnectRemoved
<1>1. found \in Objs
  BY DEF Inv, Hands
<1>2. UNCHANGED <<addr, id, monitored, loop>>
  BY <1>1, DisconnectType DEF Inv
<1>3. Still
  BY <1>2 DEF Still
<1>4. TypeOK'
  BY <1>1, DisconnectType DEF Inv, TypeOK
<1>5. Work'
  BY DEF Inv, Work
<1>6. Hands'
  BY <1>2, <1>3, StillTables DEF Inv, Hands
<1>7. Covered'
  BY <1>3, StillTables DEF Inv, Covered, TypeOK
<1>. QED  BY <1>3, <1>4, <1>5, <1>6, <1>7, StillTables DEF Inv

(* The entry that DeleteRemoved takes off belongs to the removed address.  *)
LEMMA DeleteEffect ==
  ASSUME Inv, DeleteRemoved
  PROVE  /\ at \in Addrs \ currentEntries
         /\ \A a \in Addrs : pendingEngines'[a] # None => pendingEngines'[a] = pendingEngines[a]
         /\ \A a \in Addrs \ {at} : pendingEngines'[a] = pendingEngines[a]
         /\ \A h \in Hosts, a \in Addrs :
              /\ engines'[<<h, a>>] # None => engines'[<<h, a>>] = engines[<<h, a>>]
              /\ a # at => engines'[<<h, a>>] = engines[<<h, a>>]
<1>. USE DEF DeleteRemoved
<1>1. at \in Addrs \ currentEntries /\ addr[found] = at
  BY DEF Inv, Hands
<1>2. ID(found) = <<id[found], at>>
  BY <1>1 DEF ID
<1>3. \A h \in Hosts, a \in Addrs : <<h, a>> \in IDs
  BY DEF IDs
<1>4. ASSUME NEW h \in Hosts, NEW a \in Addrs
      PROVE  /\ engines'[<<h, a>>] # None => engines'[<<h, a>>] = engines[<<h, a>>]
             /\ a # at => engines'[<<h, a>>] = engines[<<h, a>>]
  BY <1>2, <1>3, <1>4
<1>5. \A a \in Addrs \ {at} : pendingEngines'[a] = pendingEngines[a]
  BY DEF Inv, TypeOK
<1>6. \A a \in Addrs : pendingEngines'[a] # None => pendingEngines'[a] = pendingEngines[a]
  BY <1>1 DEF Inv, TypeOK
<1>. QED  BY <1>1, <1>4, <1>5, <1>6

LEMMA DeleteRemovedStep == ASSUME Inv, DeleteRemoved PROVE Inv'
<1>. USE DEF objVars
<1>1. TypeOK'
  BY DEF DeleteRemoved, Inv, TypeOK
<1>2. Keys'
  BY DeleteEffect DEF DeleteRemoved, Inv, Keys
<1>3. AddrOnce'
  BY DeleteEffect DEF Inv, AddrOnce, Registered
<1>4. Work'
  BY DEF DeleteRemoved, Inv, Work
<1>5. \A a \in currentEntries : Registered(a)' <=> Registered(a)
  BY DeleteEffect, ZenonT(60) DEF Registered, Inv, TypeOK
<1>6. Covered'
  BY <1>5, DeleteEffect DEF DeleteRemoved, Inv, Covered, TypeOK
<1>7. Hands'
  BY DEF DeleteRemoved, Inv, Hands
<1>. QED  BY <1>1, <1>2, <1>3, <1>4, <1>6, <1>7 DEF Inv

LEMMA CheckAddedStep == ASSUME Inv, NEW a \in Addrs, CheckAdded(a) PROVE Inv'
<1>. USE DEF CheckAdded
<1>1. getEngineByAddr(a) # {} <=> pendingEngines[a] # None \/ Registered(a)
  BY Lookup DEF Inv
<1>2. CASE getEngineByAddr(a) # {}
  <2>1. Still
    BY <1>2 DEF Still
  <2>2. TypeOK' /\ Work'
    BY <1>2 DEF Inv, TypeOK, Work
  <2>3. Hands'
    BY <1>2, <2>1, StillTables DEF Inv, Hands, TypeOK
  <2>4. Covered'
    BY <1>1, <1>2, <2>1, StillTables DEF Inv, Covered, TypeOK
  <2>. QED  BY <2>1, <2>2, <2>3, <2>4, StillTables DEF Inv
<1>3. CASE getEngineByAddr(a) = {}
  <2>1. PICK e \in Fresh : /\ addr' = [addr EXCEPT ![e] = a]
                           /\ dstep' = "insert" /\ at' = a /\ found' = e
    BY <1>3
  <2>2. e \in Objs /\ addr[e] = None
    BY DEF Fresh
  <2>3. \A f \in Objs : addr'[f] = IF f = e THEN a ELSE addr[f]
    BY <2>1, <2>2 DEF Inv, TypeOK
  <2>4. Still
    BY <2>2, <2>3 DEF Still
  <2>5. TypeOK' /\ Work'
    BY <2>1, <2>2 DEF Inv, TypeOK, Work
  <2>6. Hands'
    <3>1. /\ \A v \in Validators : pc[v] # "free" =>
               eng[v] \in Objs /\ addr'[eng[v]] \in Addrs
          /\ \A f \in pEngines : addr'[f] \in Addrs
          /\ \A f \in Objs : loop[f] # "off" => addr'[f] \in Addrs
      BY <2>3 DEF Inv, Hands, TypeOK
    <3>2. a \in currentEntries
      BY DEF Inv, Work
    <3>. QED
      BY <1>1, <1>3, <2>1, <2>2, <2>3, <2>4, <3>1, <3>2, StillTables DEF Inv, Hands
  <2>7. Covered'
    BY <2>1, <2>4, StillTables DEF Inv, Covered, TypeOK
  <2>. QED  BY <2>4, <2>5, <2>6, <2>7, StillTables DEF Inv
<1>. QED  BY <1>2, <1>3

LEMMA InsertAddedStep == ASSUME Inv, NEW v \in Validators, InsertAdded(v) PROVE Inv'
<1>. USE DEF InsertAdded, objVars
<1>1. at \in currentEntries /\ at \in Addrs /\ found \in Objs /\ addr[found] = at
  BY DEF Inv, Hands, TypeOK
<1>2. \A a \in Addrs : pendingEngines'[a] = IF a = at THEN found ELSE pendingEngines[a]
  BY <1>1 DEF Inv, TypeOK
<1>3. \A a \in Addrs : Registered(a)' <=> Registered(a)
  BY DEF Registered
<1>4. TypeOK'
  BY <1>1 DEF Inv, TypeOK
<1>5. Keys'
  BY <1>1, <1>2 DEF Inv, Keys
<1>6. AddrOnce'
  BY <1>1, <1>2, <1>3 DEF Inv, AddrOnce, Hands
<1>7. Work'
  BY DEF Inv, Work
<1>8. Covered'
  BY <1>1, <1>2, <1>3, NoneAssumption DEF Inv, Covered, TypeOK
<1>9. Hands'
  BY <1>1 DEF Inv, Hands, TypeOK
<1>. QED  BY <1>4, <1>5, <1>6, <1>7, <1>8, <1>9 DEF Inv

-----------------------------------------------------------------------------
(* Steps of validators, of monitorPendingEngines and of refresh loops that *)
(* leave monitorDiscovery and the tables alone.                            *)
LEMMA QuietStep ==
  ASSUME Inv, TypeOK', UNCHANGED <<pendingEngines, engines, discVars, addr>>,
         \A e \in Objs : id[e] # None => id'[e] = id[e],
         \A v \in Validators : pc'[v] # "free" =>
           eng'[v] \in Objs /\ addr[eng'[v]] \in Addrs,
         \A v \in Validators : pc'[v] \in {"list", "commit"} => id'[eng'[v]] \in Hosts,
         \A e \in pEngines' : addr[e] \in Addrs,
         \A e \in Objs : loop'[e] # "off" => addr[e] \in Addrs
  PROVE  Inv'
<1>. USE DEF discVars
<1>1. Still
  BY DEF Still
<1>2. Work'
  BY DEF Inv, Work
<1>3. Covered'
  BY <1>1, StillTables DEF Inv, Covered, TypeOK
<1>4. Hands'
  BY <1>1, StillTables DEF Inv, Hands, TypeOK
<1>. QED  BY <1>1, <1>2, <1>3, <1>4, StillTables DEF Inv

LEMMA updateSpecsEffect ==
  ASSUME TypeOK, NEW e \in Objs, addr[e] \in Addrs, updateSpecs(e)
  PROVE  /\ id' \in [Objs -> Hosts \cup {None}]
         /\ state' \in [Objs -> {"pending", "healthy", "disconnected"}]
         /\ UNCHANGED <<addr, nop, monitored, stopped>>
         /\ id'[e] \in Hosts
         /\ \A f \in Objs : id[f] # None => id'[f] = id[f]
BY NoneAssumption DEF updateSpecs, TypeOK

LEMMA ConnectStep ==
  ASSUME Inv, NEW v \in Validators,
         ConnectFails(v) \/ Resolve(v) \/ Info(v) \/ Specs(v) \/ List(v)
  PROVE  Inv'
<1>. USE DEF GoTo, GiveUp, objVars
<1>1. ASSUME pc[v] # "free" PROVE eng[v] \in Objs /\ addr[eng[v]] \in Addrs
  BY <1>1, Zenon DEF Inv, Hands
<1>2. CASE ConnectFails(v)
  <2>1. TypeOK'
    BY <1>2, Zenon DEF ConnectFails, Inv, TypeOK, discVars
  <2>. QED  BY <1>2, <2>1, QuietStep, ZenonT(60) DEF ConnectFails, Inv, Hands, TypeOK
<1>3. CASE Resolve(v)
  <2>1. TypeOK'
    BY <1>1, <1>3, Zenon DEF Resolve, Inv, TypeOK, discVars
  <2>. QED  BY <1>3, <2>1, QuietStep DEF Resolve, Inv, Hands, TypeOK
<1>4. CASE Info(v)
  <2>1. TypeOK'
    BY <1>4, Zenon DEF Info, Inv, TypeOK, discVars
  <2>. QED  BY <1>4, <2>1, QuietStep, ZenonT(60) DEF Info, Inv, Hands, TypeOK
<1>5. CASE List(v)
  <2>1. TypeOK'
    BY <1>5, Zenon DEF List, Inv, TypeOK, discVars
  <2>. QED  BY <1>5, <2>1, QuietStep, ZenonT(60) DEF List, Inv, Hands, TypeOK
<1>6. CASE Specs(v)
  <2>1. eng[v] \in Objs /\ addr[eng[v]] \in Addrs /\ updateSpecs(eng[v])
    BY <1>1, <1>6, Zenon DEF Specs
  <2>2. /\ id' \in [Objs -> Hosts \cup {None}]
        /\ state' \in [Objs -> {"pending", "healthy", "disconnected"}]
        /\ UNCHANGED <<addr, nop, monitored, stopped>>
        /\ id'[eng[v]] \in Hosts
        /\ \A f \in Objs : id[f] # None => id'[f] = id[f]
    BY <2>1, updateSpecsEffect, Zenon DEF Inv
  <2>3. TypeOK'
    BY <1>6, <2>2 DEF Specs, Inv, TypeOK, discVars
  <2>4. ASSUME NEW w \in Validators
        PROVE  /\ pc'[w] # "free" => eng'[w] \in Objs /\ addr[eng'[w]] \in Addrs
               /\ pc'[w] \in {"list", "commit"} => id'[eng'[w]] \in Hosts
    BY <1>6, <2>1, <2>2, NoneAssumption, SMTT(60) DEF Specs, Inv, Hands, TypeOK
  <2>. QED
    BY <1>6, <2>2, <2>3, <2>4, QuietStep, Zenon DEF Specs, Inv, Hands
<1>. QED  BY <1>2, <1>3, <1>4, <1>5, <1>6, Zenon

(* The two branches of validatePendingEngine for a duplicate ID are never  *)
(* taken: Commit does nothing or moves the address from one table to the   *)
(* other.                                                                  *)
LEMMA CommitEffect ==
  ASSUME Inv, NEW v \in Validators, Commit(v)
  PROVE  LET e == eng[v] IN
         /\ e \in Objs /\ addr[e] \in Addrs /\ id[e] \in Hosts
         /\ \/ UNCHANGED <<pendingEngines, engines, objVars, crashed>>
            \/ /\ pendingEngines[addr[e]] # None /\ ~Registered(addr[e])
               /\ pendingEngines' = [pendingEngines EXCEPT ![addr[e]] = None]
               /\ engines' = [engines EXCEPT ![<<id[e], addr[e]>>] = e]
               /\ ValidationComplete(e)
<1>. DEFINE e == eng[v]
<1>1. e \in Objs /\ addr[e] \in Addrs /\ id[e] \in Hosts
  BY Zenon DEF Commit, Inv, Hands
<1>2. CASE pendingEngines[addr[e]] = None
  BY <1>1, <1>2, SMTT(60) DEF Commit
<1>3. CASE pendingEngines[addr[e]] # None
  <2>1. ~Registered(addr[e])
    BY <1>1, <1>3 DEF Inv, AddrOnce
  <2>2. engines[ID(e)] = None
    BY <1>1, <2>1, Zenon DEF ID, Registered
  <2>. QED  BY <1>1, <1>3, <2>1, <2>2 DEF Commit, ID
<1>. QED  BY <1>2, <1>3

LEMMA CommitStep == ASSUME Inv, NEW v \in Validators, Commit(v) PROVE Inv'
<1>. DEFINE e == eng[v]
           a == addr[e]
           k == <<id[e], a>>
<1>1. e \in Objs /\ a \in Addrs /\ id[e] \in Hosts
  BY CommitEffect, Zenon
<1>2. /\ GiveUp(v)
      /\ UNCHANGED <<host, discVars, pEngines>>
  BY DEF Commit
<1>3. CASE UNCHANGED <<pendingEngines, engines, objVars, crashed>>
  <2>1. TypeOK'
    BY <1>2, <1>3 DEF GiveUp, Inv, TypeOK, discVars, objVars
  <2>. QED  BY <1>2, <1>3, <2>1, QuietStep, ZenonT(60) DEF GiveUp, Inv, Hands, TypeOK, objVars
<1>4. CASE /\ pendingEngines[a] # None /\ ~Registered(a)
           /\ pendingEngines' = [pendingEngines EXCEPT ![a] = None]
           /\ engines' = [engines EXCEPT ![k] = e]
           /\ ValidationComplete(e)
  <2>1. k \in IDs /\ e # None
    BY <1>1, NoneAssumption DEF IDs
  <2>2. TypeOK'
    BY <1>1, <1>2, <1>4, <2>1 DEF GiveUp, ValidationComplete, Inv, TypeOK, discVars
  <2>3. \A b \in Addrs : pendingEngines'[b] = IF b = a THEN None ELSE pendingEngines[b]
    BY <1>1, <1>4 DEF Inv, TypeOK
  <2>4. \A h \in Hosts, b \in Addrs :
          engines'[<<h, b>>] = IF h = id[e] /\ b = a THEN e ELSE engines[<<h, b>>]
    BY <1>1, <1>4, <2>1, SMTT(60) DEF Inv, TypeOK, IDs
  <2>5. UNCHANGED <<addr, id>>
    BY <1>4 DEF ValidationComplete
  <2>6. \A b \in Addrs : Registered(b)' <=> Registered(b) \/ b = a
    BY <1>1, <2>1, <2>4, ZenonT(60) DEF Registered
  <2>7. Keys'
    BY <1>1, <2>3, <2>4, <2>5 DEF Inv, Keys
  <2>8. AddrOnce'
    <3>1. \A b \in Addrs : pendingEngines'[b] # None => ~Registered(b)'
      BY <2>3, <2>6 DEF Inv, AddrOnce
    <3>2. \A h \in Hosts : engines[<<h, a>>] = None
      BY <1>4 DEF Registered
    <3>3. \A b \in Addrs, h1, h2 \in Hosts :
            engines'[<<h1, b>>] # None /\ engines'[<<h2, b>>] # None => h1 = h2
      BY <1>1, <2>4, <3>2 DEF Inv, AddrOnce
    <3>. QED  BY <3>1, <3>3 DEF AddrOnce
  <2>9. Work'
    BY <1>2 DEF Inv, Work, discVars
  <2>10. Covered'
    BY <1>2, <2>3, <2>6 DEF Inv, Covered, discVars, TypeOK
  <2>11. Hands'
    <3>1. /\ \A w \in Validators : pc'[w] # "free" => pc'[w] = pc[w] /\ eng'[w] = eng[w]
          /\ \A f \in Objs : loop'[f] # "off" => loop[f] # "off" \/ f = e
      BY <1>1, <1>2, <1>4, ZenonT(60) DEF GiveUp, ValidationComplete, Inv, TypeOK
    <3>2. /\ \A w \in Validators : pc'[w] # "free" => eng'[w] \in Objs /\ addr[eng'[w]] \in Addrs
          /\ \A w \in Validators : pc'[w] \in {"list", "commit"} => id[eng'[w]] \in Hosts
          /\ \A f \in Objs : loop'[f] # "off" => addr[f] \in Addrs
      BY <1>1, <3>1 DEF Inv, Hands
    <3>3. dstep = "insert" => at # a
      BY <1>4 DEF Inv, Hands
    <3>4. dstep = "insert" => at \in Addrs
      BY DEF Inv, Hands, TypeOK
    <3>. QED
      BY <1>2, <2>3, <2>5, <2>6, <3>2, <3>3, <3>4 DEF Inv, Hands, discVars
  <2>. QED  BY <2>2, <2>7, <2>8, <2>9, <2>10, <2>11 DEF Inv
<1>. QED  BY <1>3, <1>4, CommitEffect

-----------------------------------------------------------------------------
LEMMA PendingStep == ASSUME Inv, monitorPendingEngines PROVE Inv'
<1>. USE DEF objVars
<1>1. CASE ListPending
  <2>1. pEngines' \subseteq Objs /\ \A e \in pEngines' : addr[e] \in Addrs
    BY <1>1 DEF ListPending, Inv, TypeOK, Keys
  <2>2. TypeOK'
    BY <1>1, <2>1, ZenonT(60) DEF ListPending, Inv, TypeOK, discVars
  <2>. QED  BY <1>1, <2>1, <2>2, QuietStep DEF ListPending, Inv, Hands
<1>2. ASSUME NEW e \in Objs, NotTime(e) PROVE Inv'
  <2>1. TypeOK'
    BY <1>2, Zenon DEF NotTime, Inv, TypeOK, discVars
  <2>. QED  BY <1>2, <2>1, QuietStep DEF NotTime, Inv, Hands
<1>3. ASSUME NEW e \in Objs, NEW v \in Validators, Revalidate(e, v) PROVE Inv'
  <2>1. TypeOK'
    BY <1>3 DEF Revalidate, Inv, TypeOK, discVars
  <2>. QED  BY <1>3, <2>1, QuietStep, ZenonT(60) DEF Revalidate, Inv, Hands, TypeOK
<1>. QED  BY <1>1, <1>2, <1>3, ZenonT(60) DEF monitorPendingEngines

LEMMA LoopStep == ASSUME Inv, NEW e \in Objs, refreshLoop(e) PROVE Inv'
<1>1. CASE LoopInfo(e)
  <2>1. TypeOK'
    BY <1>1, Zenon DEF LoopInfo, Inv, TypeOK, discVars
  <2>. QED  BY <1>1, <2>1, QuietStep, ZenonT(60) DEF LoopInfo, Inv, Hands, TypeOK
<1>2. CASE LoopSpecs(e)
  <2>1. addr[e] \in Addrs
    BY <1>2, Zenon DEF LoopSpecs, Inv, Hands
  <2>2. /\ id' \in [Objs -> Hosts \cup {None}]
        /\ state' \in [Objs -> {"pending", "healthy", "disconnected"}]
        /\ UNCHANGED <<addr, nop, monitored, stopped>>
        /\ \A f \in Objs : id[f] # None => id'[f] = id[f]
    BY <1>2, <2>1, updateSpecsEffect, Zenon DEF LoopSpecs, Inv
  <2>3. TypeOK'
    BY <1>2, <2>2, Zenon DEF LoopSpecs, Inv, TypeOK, discVars
  <2>4. \A v \in Validators : pc'[v] \in {"list", "commit"} => id'[eng'[v]] \in Hosts
    BY <1>2, <2>2, NoneAssumption DEF LoopSpecs, Inv, Hands, TypeOK
  <2>. QED  BY <1>2, <2>1, <2>2, <2>3, <2>4, QuietStep, ZenonT(60) DEF LoopSpecs, Inv, Hands, TypeOK
<1>3. CASE LoopStops(e)
  <2>1. TypeOK'
    BY <1>3 DEF LoopStops, Inv, TypeOK, discVars
  <2>2. /\ UNCHANGED <<pendingEngines, engines, discVars, addr, id>>
        /\ UNCHANGED <<pc, eng, pEngines>>
    BY <1>3 DEF LoopStops, discVars
  <2>3. \A f \in Objs : loop'[f] # "off" => loop[f] # "off"
    BY <1>3 DEF LoopStops, Inv, TypeOK
  <2>4. Hands
    BY DEF Inv
  <2>5. /\ \A v \in Validators : pc'[v] # "free" =>
             eng'[v] \in Objs /\ addr[eng'[v]] \in Addrs
        /\ \A v \in Validators : pc'[v] \in {"list", "commit"} => id'[eng'[v]] \in Hosts
        /\ \A f \in pEngines' : addr[f] \in Addrs
        /\ \A f \in Objs : loop'[f] # "off" => addr[f] \in Addrs
    BY <2>2, <2>3, <2>4, Zenon DEF Hands
  <2>. QED  BY <2>1, <2>2, <2>5, QuietStep, Zenon
<1>. QED  BY <1>1, <1>2, <1>3, Zenon DEF refreshLoop

LEMMA ReplaceHostStep == ASSUME Inv, NEW a \in Addrs, ReplaceHost(a) PROVE Inv'
<1>1. TypeOK'
  BY ZenonT(60) DEF ReplaceHost, Inv, TypeOK, discVars, objVars
<1>. QED  BY <1>1, QuietStep DEF ReplaceHost, Inv, Hands, objVars

LEMMA Stutter == ASSUME Inv, UNCHANGED vars PROVE Inv'
<1>1. TypeOK'
  BY DEF vars, Inv, TypeOK, discVars, objVars
<1>. QED  BY <1>1, QuietStep DEF vars, Inv, Hands, objVars

LEMMA InvStep == Inv /\ [Next]_vars => Inv'
<1>. SUFFICES ASSUME Inv, [Next]_vars PROVE Inv'
  OBVIOUS
<1>1. CASE monitorDiscovery
  BY <1>1, ReceiveStep, FindRemovedStep, CheckAddedStep, DisconnectRemovedStep,
     DeleteRemovedStep, InsertAddedStep DEF monitorDiscovery
<1>2. ASSUME NEW v \in Validators, validatePendingEngine(v) PROVE Inv'
  BY <1>2, ConnectStep, CommitStep DEF validatePendingEngine
<1>. QED
  BY <1>1, <1>2, PendingStep, LoopStep, ReplaceHostStep, Stutter DEF Next

LEMMA InvInit == Init => Inv
<1>. SUFFICES ASSUME Init PROVE Inv
  OBVIOUS
<1>1. \A a \in Addrs : pendingEngines[a] = None /\ ~Registered(a)
  BY Zenon DEF Init, Registered, IDs
<1>2. \A h \in Hosts, a \in Addrs : engines[<<h, a>>] = None
  BY DEF Init, IDs
<1>3. crashed \in BOOLEAN /\ nop \in [Objs -> BOOLEAN]
      /\ monitored \in [Objs -> BOOLEAN] /\ stopped \in [Objs -> BOOLEAN]
  BY Zenon DEF Init
<1>4. TypeOK
  BY <1>3 DEF Init, TypeOK
<1>5. Hands
  BY DEF Init, Hands
<1>6. Keys /\ Work /\ AddrOnce /\ Covered
  BY <1>1, <1>2 DEF Init, Keys, Work, AddrOnce, Covered
<1>. QED  BY <1>4, <1>5, <1>6 DEF Inv

LEMMA InvCorrect == Spec => []Inv
<1>. QED  BY InvInit, InvStep, PTL DEF Spec

(* The fields of the cluster and of its engines keep their types.          *)
THEOREM TypeCorrect == Spec => []TypeOK
<1>1. Inv => TypeOK
  BY DEF Inv
<1>. QED  BY <1>1, InvCorrect, PTL

(* No interleaving of monitorDiscovery with late validators registers an   *)
(* address twice.                                                          *)
THEOREM AddressOnce == Spec => []AddrOnce
<1>1. Inv => AddrOnce
  BY DEF Inv
<1>. QED  BY <1>1, InvCorrect, PTL

(* No interleaving loses an address that discovery lists.                  *)
THEOREM NoneLost == Spec => []ListedIsKnown
<1>1. Inv => ListedIsKnown
  BY DEF Inv, Covered, ListedIsKnown
<1>. QED  BY <1>1, InvCorrect, PTL

-----------------------------------------------------------------------------
(* The tables refine the registry of addresses.                            *)
LEMMA SameStatus ==
  ASSUME UNCHANGED <<pendingEngines, engines, currentEntries>>
  PROVE  UNCHANGED <<currentEntries, status>>
BY DEF status, Registered

LEMMA StatusStep ==
  ASSUME NEW b \in Addrs, NEW s,
         \A a \in Addrs : status'[a] = IF a = b THEN s ELSE status[a]
  PROVE  status' = [status EXCEPT ![b] = s]
BY Zenon DEF status

LEMMA InsertRefines ==
  ASSUME Inv, NEW v \in Validators, InsertAdded(v) PROVE Registry!Add(at)
<1>1. at \in currentEntries /\ at \in Addrs /\ found \in Objs
      /\ pendingEngines[at] = None /\ ~Registered(at)
  BY DEF InsertAdded, Inv, Hands, TypeOK
<1>2. status[at] = "absent"
  BY <1>1 DEF status
<1>3. \A a \in Addrs : pendingEngines'[a] = IF a = at THEN found ELSE pendingEngines[a]
  BY <1>1 DEF InsertAdded, Inv, TypeOK
<1>4. \A a \in Addrs : Registered(a)' <=> Registered(a)
  BY DEF InsertAdded, Registered
<1>5. \A a \in Addrs : status'[a] = IF a = at THEN "pending" ELSE status[a]
  BY <1>1, <1>3, <1>4, NoneAssumption DEF status
<1>6. status' = [status EXCEPT ![at] = "pending"]
  BY <1>1, <1>5, StatusStep, Zenon
<1>. QED  BY <1>1, <1>2, <1>6 DEF Registry!Add, InsertAdded

LEMMA CommitRefines ==
  ASSUME Inv, NEW v \in Validators, Commit(v)
  PROVE  Registry!Install(addr[eng[v]]) \/ UNCHANGED <<currentEntries, status>>
<1>. DEFINE e == eng[v]
           a == addr[e]
           k == <<id[e], a>>
<1>1. e \in Objs /\ a \in Addrs /\ id[e] \in Hosts
  BY CommitEffect, Zenon
<1>2. UNCHANGED currentEntries
  BY SMTT(60) DEF Commit, discVars
<1>3. CASE UNCHANGED <<pendingEngines, engines, objVars, crashed>>
  BY <1>2, <1>3, SameStatus
<1>4. CASE /\ pendingEngines[a] # None /\ ~Registered(a)
           /\ pendingEngines' = [pendingEngines EXCEPT ![a] = None]
           /\ engines' = [engines EXCEPT ![k] = e]
  <2>1. k \in IDs /\ e # None
    BY <1>1, NoneAssumption DEF IDs
  <2>2. \A b \in Addrs : pendingEngines'[b] = IF b = a THEN None ELSE pendingEngines[b]
    BY <1>1, <1>4 DEF Inv, TypeOK
  <2>3. \A h \in Hosts, b \in Addrs :
          engines'[<<h, b>>] = IF h = id[e] /\ b = a THEN e ELSE engines[<<h, b>>]
    BY <1>1, <1>4, <2>1 DEF Inv, TypeOK, IDs
  <2>4. \A b \in Addrs : Registered(b)' <=> Registered(b) \/ b = a
    BY <1>1, <2>1, <2>3, ZenonT(60) DEF Registered
  <2>5. \A b \in Addrs : status'[b] = IF b = a THEN "installed" ELSE status[b]
    BY <2>2, <2>4 DEF status
  <2>6. status[a] = "pending"
    BY <1>1, <1>4 DEF status
  <2>7. status' = [status EXCEPT ![a] = "installed"]
    BY <1>1, <2>5, StatusStep
  <2>. QED  BY <1>2, <2>6, <2>7 DEF Registry!Install
<1>. QED  BY <1>3, <1>4, CommitEffect, SMTT(60)

LEMMA DeleteRefines ==
  ASSUME Inv, DeleteRemoved
  PROVE  Registry!Remove(at) \/ UNCHANGED <<currentEntries, status>>
<1>1. at \in Addrs \ currentEntries /\ UNCHANGED currentEntries
  BY DeleteEffect DEF DeleteRemoved
<1>0. PICK b \in Addrs : b = at
  BY <1>1
<1>2. \A a \in Addrs \ {b} : Registered(a)' <=> Registered(a)
  BY <1>0, DeleteEffect, ZenonT(60) DEF Registered
<1>3. \A a \in Addrs \ {b} : status'[a] = status[a]
  BY <1>0, <1>2, DeleteEffect DEF status
<1>4. CASE pendingEngines[at] # None
  <2>1. pendingEngines'[at] = None /\ engines' = engines
    BY <1>0, <1>1, <1>4, Zenon DEF DeleteRemoved, Inv, TypeOK
  <2>2. ~Registered(b)'
    BY <1>0, <1>1, <1>4, <2>1 DEF Inv, AddrOnce, Registered
  <2>3. status[b] = "pending" /\ status'[b] = "absent"
    BY <1>0, <1>1, <1>4, <2>1, <2>2 DEF status
  <2>4. status' = [status EXCEPT ![b] = "absent"]
    BY <1>0, <1>1, <1>3, <2>3, StatusStep
  <2>. QED  BY <1>0, <1>1, <2>3, <2>4 DEF Registry!Remove
<1>5. CASE pendingEngines[at] = None
  <2>1. /\ engines' = [k \in IDs |-> IF k = ID(found) THEN None ELSE engines[k]]
        /\ pendingEngines' = pendingEngines
    BY <1>5, SMTT(60) DEF DeleteRemoved
  <2>2. ID(found) = <<id[found], at>>
    BY DEF DeleteRemoved, ID, Inv, Hands
  <2>3. CASE ID(found) \in IDs /\ engines[ID(found)] # None
    <3>1. id[found] \in Hosts
      BY <2>2, <2>3 DEF IDs
    <3>2. \A h \in Hosts : <<h, at>> \in IDs
      BY <1>1 DEF IDs
    <3>3. \A h \in Hosts : h # id[found] => engines[<<h, at>>] = None
      BY <1>0, <1>1, <2>2, <2>3, <3>1 DEF Inv, AddrOnce
    <3>4. ~Registered(b)'
      BY <1>0, <2>1, <2>2, <3>2, <3>3, Zenon DEF Registered
    <3>5. Registered(b)
      BY <1>0, <2>2, <2>3, <3>1, Zenon DEF Registered
    <3>6. status[b] = "installed" /\ status'[b] = "absent"
      BY <1>0, <1>1, <1>5, <2>1, <3>4, <3>5 DEF status
    <3>7. status' = [status EXCEPT ![b] = "absent"]
      BY <1>0, <1>1, <1>3, <3>6, StatusStep
    <3>. QED  BY <1>0, <1>1, <3>6, <3>7 DEF Registry!Remove
  <2>4. CASE ~(ID(found) \in IDs /\ engines[ID(found)] # None)
    <3>1. engines' = engines
      BY <2>1, <2>4 DEF Inv, TypeOK
    <3>. QED  BY <1>0, <1>1, <2>1, <3>1, SameStatus
  <2>. QED  BY <2>3, <2>4
<1>. QED  BY <1>4, <1>5

LEMMA RefineStep ==
  Inv /\ [Next]_vars => [Registry!Next]_<<currentEntries, status>>
<1>. SUFFICES ASSUME Inv, [Next]_vars
              PROVE  [Registry!Next]_<<currentEntries, status>>
  OBVIOUS
<1>1. CASE Receive
  <2>1. currentEntries' \in SUBSET Addrs
    BY <1>1 DEF Receive
  <2>2. UNCHANGED status
    BY <1>1 DEF Receive, status, Registered
  <2>. QED  BY <2>1, <2>2 DEF Registry!Next, Registry!Discover
<1>2. ASSUME NEW v \in Validators, InsertAdded(v)
      PROVE  [Registry!Next]_<<currentEntries, status>>
  <2>1. at \in Addrs
    BY <1>2 DEF InsertAdded, Inv, Hands, TypeOK
  <2>. QED  BY <1>2, <2>1, InsertRefines DEF Registry!Next
<1>3. ASSUME NEW v \in Validators, Commit(v)
      PROVE  [Registry!Next]_<<currentEntries, status>>
  <2>1. addr[eng[v]] \in Addrs
    BY <1>3, CommitEffect, Zenon
  <2>. QED  BY <1>3, <2>1, CommitRefines, Zenon DEF Registry!Next
<1>4. CASE DeleteRemoved
  BY <1>4, DeleteEffect, DeleteRefines DEF Registry!Next
<1>5. ASSUME NEW a \in Addrs, FindRemoved(a) \/ CheckAdded(a) \/ ReplaceHost(a)
      PROVE  UNCHANGED <<currentEntries, status>>
  BY <1>5, SameStatus DEF FindRemoved, CheckAdded, ReplaceHost, discVars
<1>6. CASE DisconnectRemoved \/ monitorPendingEngines \/ UNCHANGED vars
  BY <1>6, SameStatus, Zenon DEF DisconnectRemoved, monitorPendingEngines, ListPending,
     NotTime, Revalidate, vars, discVars
<1>7. ASSUME NEW v \in Validators,
             ConnectFails(v) \/ Resolve(v) \/ Info(v) \/ Specs(v) \/ List(v)
      PROVE  UNCHANGED <<currentEntries, status>>
  BY <1>7, SameStatus, Zenon DEF ConnectFails, Resolve, Info, Specs, List, discVars
<1>8. ASSUME NEW e \in Objs, refreshLoop(e) PROVE UNCHANGED <<currentEntries, status>>
  BY <1>8, SameStatus, Zenon DEF refreshLoop, LoopInfo, LoopSpecs, LoopStops, discVars
<1>. QED
  BY <1>1, <1>2, <1>3, <1>4, <1>5, <1>6, <1>7, <1>8
     DEF Next, monitorDiscovery, validatePendingEngine

(* The engine tables implement the registry of addresses: an address       *)
(* enters when discovery lists it, is installed from pending only, and     *)
(* leaves only when discovery no longer lists it.                          *)
THEOREM Refinement == Spec => RegistrySpec
<1>1. Init => Registry!Init
  <2>. SUFFICES ASSUME Init PROVE Registry!Init
    OBVIOUS
  <2>1. \A a \in Addrs : pendingEngines[a] = None /\ ~Registered(a)
    BY Zenon DEF Init, Registered, IDs
  <2>2. status = [a \in Addrs |-> "absent"]
    BY <2>1 DEF status
  <2>. QED  BY <2>2 DEF Init, Registry!Init
<1>. QED
  BY <1>1, RefineStep, InvCorrect, PTL DEF Spec, RegistrySpec, Registry!Spec
====
