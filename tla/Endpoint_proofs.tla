--------------------------- MODULE Endpoint_proofs ---------------------------
(***************************************************************************)
(* Region, key and certificate, for any table of regions, any keys and any *)
(* heap, over any faults and crashes.                                      *)
(***************************************************************************)
EXTENDS Endpoint, TLAPS

\* At most one certificate is allocated, and no other than the one in use.
Certificates ==
  /\ heap \subseteq {cert}
  /\ pc = "boot" => heap = {} /\ cert = "null"
  /\ LookupsSucceed => pc # "undefined" /\ (Allocated(cert) => cert \in heap)

\* How far a set or a removal has come, in the files.
Progress ==
  /\ pc \in {"open region", "flush region", "open key", "flush key"} =>
       goal \in [region : Regions, key : Keys]
  /\ pc = "open region" => Stored = before
  /\ pc = "flush region" => file.region = "empty"
  /\ pc \in {"open key", "flush key"} =>
       /\ file.region \in {goal.region, "empty"}
       /\ "flush" \notin faults => file.region = goal.region
  /\ pc = "remove key" => file.region = "missing" /\ goal = Unset
  /\ goal # Unset => Stored = before \/ file.region \in {goal.region, "empty"}

\* What a set that answered has left.
Answered ==
  /\ pc = "boot" => rc = "ok"
  /\ "flush" \notin faults /\ pc \in {"boot", "app"} /\ rc = "ok" /\ goal # Unset =>
       Stored = goal

IInv == TypeOK /\ Certificates /\ Progress /\ Answered

\* The pair a start reads, by the contents of the region's file.
LEMMA WhatIsRead ==
  ASSUME TypeOK
  PROVE  /\ Stored \in Pairs
         /\ file.region \notin Regions => Stored = WithDefaultKey(Unset)
         /\ file.region \in Regions => Stored.region = file.region
         /\ file.region \in Regions /\ file.key \in Keys => Stored.key = file.key
         /\ file.region \notin Regions \/ file.key \notin Keys => Stored.key = DefaultKey
BY EndpointAssumption
   DEF Stored, Read, WithDefaultKey, Unset, TypeOK, Stores, Pairs

\* A device that has never been set up satisfies the invariant.
LEMMA InvInit == Init => IInv
<1> SUFFICES ASSUME Init PROVE IInv
  OBVIOUS
<1>1. TypeOK
  BY EndpointAssumption DEF Init, TypeOK, Stores, Pairs, Unset, NoHost, Hosts, Steps
<1> QED BY <1>1, EndpointAssumption
  DEF Init, IInv, Certificates, Progress, Answered, Allocated, Unset

\* Every step keeps the types.
LEMMA TypeStep == IInv /\ [Next]_evars => TypeOK'
<1> SUFFICES ASSUME TypeOK, Progress, [Next]_evars PROVE TypeOK'
  BY DEF IInv
<1>0. Stored \in Pairs
  BY WhatIsRead
<1> USE EndpointAssumption DEF TypeOK, Steps
<1>1. CASE EndpointInit
  BY <1>0, <1>1 DEF EndpointInit, TableHost, TableRegion, Pairs, Hosts, WithDefaultKey,
     Stored
<1>2. CASE StartWithoutInit
  BY <1>2 DEF StartWithoutInit
<1>3. CASE Set
  BY <1>0, <1>3 DEF Set, Pairs
<1>4. CASE OpenRegion \/ OpenKey
  BY <1>4 DEF OpenRegion, OpenKey, GiveUpSet, Stores
<1>5. CASE FlushRegion \/ FlushKey
  <2>1. goal.region \in Regions /\ goal.key \in Keys /\ goal \in Pairs
    BY <1>5 DEF Progress, FlushRegion, FlushKey, Pairs
  <2>2. file' \in Stores
    BY <1>5, <2>1 DEF FlushRegion, FlushKey, Stores
  <2> QED BY <1>5, <2>1, <2>2 DEF FlushRegion, FlushKey
<1>6. CASE Remove \/ RemoveKey
  <2>1. file' \in Stores
    BY <1>6 DEF Remove, RemoveKey, Stores
  <2>2. goal' \in Pairs
    <3>1. Unset \in Pairs
      BY DEF Unset, Pairs
    <3> QED BY <1>6, <3>1 DEF Remove, RemoveKey
  <2> QED BY <1>0, <1>6, <2>1, <2>2 DEF Remove, RemoveKey
<1>7. ASSUME NEW auto \in BOOLEAN, Update(auto) PROVE TypeOK'
  <2>1. Answers(ram.region, auto) \subseteq Hosts
    <3>1. ram.region \in Regions \cup {"unset"} /\ ram.key \in Keys \cup {"unset"}
      BY DEF Pairs
    <3>2. (IF ram.key = "unset" THEN DefaultKey ELSE ram.key) \in Keys
      BY <3>1
    <3>3. (IF auto \/ ram.region = "unset" THEN Regions ELSE {ram.region}) \subseteq Regions
      BY <3>1
    <3>4. ASSUME NEW K \in SUBSET Keys, NEW R \in SUBSET Regions
          PROVE  [from : {"dns"}, key : K, region : R] \subseteq Hosts
      BY DEF Hosts
    <3>5. {IF ram.key = "unset" THEN DefaultKey ELSE ram.key} \in SUBSET Keys
      BY <3>2
    <3> QED BY <3>3, <3>4, <3>5 DEF Answers
  <2>2. ASSUME NEW left \in SUBSET Blocks, FetchCert(left)
        PROVE  /\ cert' \in Blocks \cup {"null", "default"}
               /\ heap' \subseteq Blocks /\ rc' \in {"ok", "error"}
    BY <2>2 DEF FetchCert
  <2>3. heap \ {cert} \in SUBSET Blocks
    OBVIOUS
  <2>4. ASSUME Lookup(ram.region, auto)
        PROVE  /\ host' \in Hosts /\ label' \in Regions \cup {"unset"}
               /\ cert' \in Blocks \cup {"null", "default"}
               /\ heap' \subseteq Blocks /\ rc' \in {"ok", "error"}
               /\ pc' = pc
    <3>1. host' \in Hosts /\ pc' = pc
      BY <2>1, <2>4 DEF Lookup
    <3>2. label' \in Regions \cup {"unset"}
      BY <2>4 DEF Lookup, Pairs
    <3>3. CASE FetchCert(heap \ {cert})
      BY <2>2, <2>3, <3>1, <3>2, <3>3
    <3>4. CASE heap' = heap \ {cert} /\ rc' = "error" /\ UNCHANGED cert
      BY <3>1, <3>2, <3>4
    <3> QED BY <2>4, <3>3, <3>4 DEF Lookup
  <2>5. Unset \in Pairs
    BY DEF Unset, Pairs
  <2> QED BY <1>0, <1>7, <2>4, <2>5 DEF Update
<1>8. CASE Crash
  BY <1>8 DEF Crash, Unset, Pairs, NoHost, Hosts
<1>9. CASE Undefined \/ UNCHANGED evars
  BY <1>9 DEF Undefined, evars
<1> QED
  BY <1>1, <1>2, <1>3, <1>4, <1>5, <1>6, <1>7, <1>8, <1>9 DEF Next

\* So do the certificates: an update releases the old one first, and a crash
\* releases all.
LEMMA CertificatesStep == IInv /\ [Next]_evars => Certificates'
<1> SUFFICES ASSUME TypeOK, Certificates, [Next]_evars PROVE Certificates'
  BY DEF IInv
<1> USE EndpointAssumption DEF Certificates, LookupsSucceed, Allocated
<1>1. CASE EndpointInit
  BY <1>1 DEF EndpointInit
<1>2. CASE StartWithoutInit \/ Set
  BY <1>2 DEF StartWithoutInit, Set
<1>3. CASE OpenRegion \/ FlushRegion \/ OpenKey \/ FlushKey
  BY <1>3 DEF OpenRegion, FlushRegion, OpenKey, FlushKey, GiveUpSet
<1>4. CASE Remove \/ RemoveKey
  BY <1>4 DEF Remove, RemoveKey
<1>5. ASSUME NEW auto \in BOOLEAN, Update(auto) PROVE Certificates'
  <2>1. heap \ {cert} = {}
    OBVIOUS
  <2>2. CASE pc' = "undefined" /\ UNCHANGED <<cert, heap>>
    BY <1>5, <2>2 DEF Update, Lookup
  <2>3. CASE Lookup(ram.region, auto)
    BY <1>5, <2>1, <2>3 DEF Update, Lookup, FetchCert, TypeOK
  <2> QED BY <1>5, <2>2, <2>3 DEF Update
<1>6. CASE Crash
  BY <1>6 DEF Crash
<1>7. CASE Undefined \/ UNCHANGED evars
  BY <1>7 DEF Undefined, evars
<1> QED BY <1>1, <1>2, <1>3, <1>4, <1>5, <1>6, <1>7 DEF Next

\* The two files advance in order, whichever write fails.
LEMMA FilesStep == IInv /\ [Next]_evars => Progress' /\ Answered'
<1> SUFFICES ASSUME TypeOK, Progress, Answered, TypeOK', [Next]_evars
             PROVE  Progress' /\ Answered'
  BY TypeStep DEF IInv
<1>0. UNCHANGED file => Stored' = Stored
  BY DEF Stored, Read
<1>a. ASSUME NEW p \in [region : Regions, key : Keys] PROVE p # Unset
  BY <1>a, EndpointAssumption DEF Unset
<1> USE DEF Progress, Answered
<1>1. CASE EndpointInit \/ StartWithoutInit
  BY <1>0, <1>1 DEF EndpointInit, StartWithoutInit
<1>2. CASE Set
  BY <1>0, <1>2 DEF Set
<1>3. CASE OpenRegion
  BY <1>0, <1>3 DEF OpenRegion, GiveUpSet, TypeOK, Stores
<1>4. CASE FlushRegion
  BY <1>4 DEF FlushRegion, TypeOK, Stores
<1>5. CASE OpenKey
  BY <1>0, <1>5 DEF OpenKey, GiveUpSet, TypeOK, Stores
<1>6. CASE FlushKey
  <2>1. "flush" \notin faults => file' = goal
    BY <1>6 DEF FlushKey, TypeOK, Stores
  <2>2. "flush" \notin faults => Stored' = goal
    BY <1>6, <2>1, EndpointAssumption DEF FlushKey, Stored, Read, WithDefaultKey, TypeOK
  <2>3. file'.region = file.region
    BY <1>6 DEF FlushKey, TypeOK, Stores
  <2> QED BY <1>6, <2>2, <2>3 DEF FlushKey
<1>7. CASE Remove \/ RemoveKey
  BY <1>7 DEF Remove, RemoveKey, TypeOK, Stores
<1>8. ASSUME NEW auto \in BOOLEAN, Update(auto) PROVE Progress' /\ Answered'
  <2>1. pc' \in {"app", "undefined"} /\ goal' = Unset
    BY <1>8 DEF Update, Lookup
  <2> QED BY <2>1
<1>9. CASE Crash
  <2>1. goal' # Unset => goal' = goal /\ pc \in {"boot", "app"} /\ rc = "ok"
    BY <1>9 DEF Crash
  <2>2. pc' = "boot" /\ rc' = "ok" /\ UNCHANGED <<file, before, faults>>
    BY <1>9 DEF Crash
  <2> QED BY <1>0, <2>1, <2>2
<1>10. CASE Undefined \/ UNCHANGED evars
  BY <1>0, <1>10 DEF Undefined, evars
<1> QED
  BY <1>1, <1>2, <1>3, <1>4, <1>5, <1>6, <1>7, <1>8, <1>9, <1>10 DEF Next

\* Every step keeps the invariant.
LEMMA InvStep == IInv /\ [Next]_evars => IInv'
BY TypeStep, CertificatesStep, FilesStep DEF IInv

\* Types, the certificate's memory and the progress of the two files, in every
\* behaviour.
THEOREM Invariance == Spec => []IInv
BY InvInit, InvStep, PTL DEF Spec

\* tuya_endpoint_update leaves no certificate behind, whatever of it failed.
THEOREM CertificatesReleased == Spec => []NoCertLeak
<1>1. IInv => NoCertLeak
  BY DEF IInv, Certificates, NoCertLeak
<1> QED BY <1>1, Invariance, PTL

\* As long as its lookups succeed, the endpoint's certificate is never freed
\* memory, over any number of updates and crashes.
THEOREM CertificateUsable == Spec => []CertUsable
<1>1. IInv => CertUsable
  BY DEF IInv, Certificates, CertUsable
<1> QED BY <1>1, Invariance, PTL

\* tuya_endpoint_region_regist_set that answers OK has stored the pair, if
\* fclose wrote what fwrite buffered.
THEOREM AnsweredSetIsStored == Spec => []StoredIsSet
<1>1. IInv => StoredIsSet
  BY DEF IInv, Answered, StoredIsSet
<1> QED BY <1>1, Invariance, PTL

\* Wherever a set or a removal is cut short, a start reads no key ahead of its
\* region, and a removal as a whole.
THEOREM StartReadsAPair == Spec => []StartConsistent
<1>1. ASSUME IInv PROVE KeyNotAheadOfRegion
  <2> SUFFICES ASSUME goal # Unset, Stored.key = goal.key,
                      Stored.key \notin {before.key, DefaultKey}
               PROVE  Stored.region = goal.region
    BY DEF KeyNotAheadOfRegion
  <2>1. file.region \in Regions
    BY <1>1, WhatIsRead DEF IInv
  <2>2. file.region \in {goal.region, "empty"}
    BY <1>1 DEF IInv, Progress
  <2> QED BY <1>1, <2>1, <2>2, WhatIsRead, EndpointAssumption DEF IInv
<1>2. ASSUME IInv PROVE RemovedTogether
  <2>1. pc = "remove key" => file.region \notin Regions
    BY <1>2, EndpointAssumption DEF IInv, Progress
  <2> QED BY <1>2, <2>1, WhatIsRead DEF IInv, RemovedTogether
<1> QED BY <1>1, <1>2, Invariance, PTL DEF StartConsistent
=============================================================================
