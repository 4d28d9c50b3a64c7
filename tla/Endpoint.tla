------------------------------ MODULE Endpoint ------------------------------
(***************************************************************************)
(* Where the device connects to (tuya_endpoint.c, iotdns.c,                *)
(* storage_wrapper.c): region and registration key in two files, a copy of *)
(* them in memory, and the endpoint they lead to - a host, from a table or *)
(* from the iot-dns service, and the certificate to check it with, which   *)
(* is the built-in one or allocated by a lookup.  The process may crash    *)
(* between any two writes.                                                 *)
(***************************************************************************)
CONSTANTS
  Regions,         \* the regions of the built-in table
  Keys,            \* the registration keys, "pro" and "pr_0"
  FirstRegion,     \* the first region of the table, the default
  DefaultKey,      \* "pro"
  Blocks,          \* heap blocks a certificate may get
  FaultSets        \* what may go wrong in a behaviour: "open", "flush",
                   \* "lookup", "decode", "crash"

ASSUME EndpointAssumption ==
  /\ FirstRegion \in Regions /\ DefaultKey \in Keys
  /\ Regions \cap {"missing", "empty", "unset"} = {}
  /\ Keys \cap {"missing", "empty", "unset"} = {}
  /\ Blocks \cap {"null", "default"} = {}
  /\ FaultSets \subseteq SUBSET {"open", "flush", "lookup", "decode", "crash"}

VARIABLES
  file,         \* contents of the files "region" and "regist_key"
  ram,          \* endpoint_mgr.region and regist_key
  host,         \* endpoint_mgr.endpoint.mqtt.host, by what it is the host of
  label,        \* endpoint_mgr.endpoint.region
  cert,         \* endpoint_mgr.endpoint.mqtt.cert
  heap,         \* the blocks in use
  pc, rc,       \* the step that comes next, the result of the last call
  goal,         \* the pair the last call was to store, or None
  before,       \* what a start would have read before that call
  faults        \* what may go wrong

evars == <<file, ram, host, label, cert, heap, pc, rc, goal, before, faults>>

Stores == [region : Regions \cup {"missing", "empty"},
           key : Keys \cup {"missing", "empty"}]
Pairs == [region : Regions \cup {"unset"}, key : Keys \cup {"unset"}]
Unset == [region |-> "unset", key |-> "unset"]
Hosts == [from : {"none", "table", "dns"}, region : Regions, key : Keys]
NoHost == [from |-> "none", region |-> FirstRegion, key |-> DefaultKey]
Steps == {"boot", "app", "open region", "flush region", "open key", "flush key",
          "remove key", "undefined"}

TypeOK ==
  /\ file \in Stores /\ ram \in Pairs /\ goal \in Pairs /\ before \in Pairs
  /\ host \in Hosts /\ label \in Regions \cup {"unset"}
  /\ cert \in Blocks \cup {"null", "default"}
  /\ heap \subseteq Blocks
  /\ pc \in Steps /\ rc \in {"ok", "error"}
  /\ faults \in FaultSets

Init ==
  /\ file = [region |-> "missing", key |-> "missing"]
  /\ ram = Unset /\ host = NoHost /\ label = "unset"
  /\ cert = "null" /\ heap = {} /\ pc = "boot" /\ rc = "ok"
  /\ goal = Unset /\ before = Unset /\ faults \in FaultSets

-----------------------------------------------------------------------------
(* Start: tuya_endpoint_init, which some programs leave out.               *)

\* Variant: the key is read whether the region was or not.
ReadBoth(r, old) ==
  [region |-> IF r.region \in Regions THEN r.region ELSE old.region,
   key |-> IF r.key \in Keys THEN r.key ELSE old.key]
\* tuya_region_regist_key_read: a file that is missing or empty is an error,
\* and the key is not read after the region failed.
Read(r, old) ==
  IF r.region \notin Regions THEN old
  ELSE [region |-> r.region, key |-> IF r.key \in Keys THEN r.key ELSE old.key]

WithDefaultKey(p) == IF p.key = "unset" THEN [p EXCEPT !.key = DefaultKey] ELSE p

\* The pair a start would come up with.
Stored == WithDefaultKey(Read(file, Unset))

\* default_endpoint_get: an empty region matches the first of the table.
TableRegion(p) == IF p.region = "unset" THEN FirstRegion ELSE p.region
TableHost(p) == [from |-> "table", region |-> TableRegion(p), key |-> p.key]

EndpointInit ==
  /\ pc = "boot" /\ pc' = "app"
  /\ ram' = Stored
  /\ host' = TableHost(Stored) /\ label' = TableRegion(Stored)
  /\ cert' = "default"
  /\ UNCHANGED <<file, heap, rc, goal, before, faults>>

StartWithoutInit ==
  /\ pc = "boot" /\ pc' = "app"
  /\ UNCHANGED <<file, ram, host, label, cert, heap, rc, goal, before, faults>>

-----------------------------------------------------------------------------
(* tuya_endpoint_region_regist_set: local_storage_set for one file, then   *)
(* the other, then the copies in memory.  fopen truncates the file; what   *)
(* fwrite buffers is written by fclose, whose result nobody looks at.      *)

Set ==
  /\ pc = "app" /\ pc' = "open region"
  /\ goal' \in [region : Regions, key : Keys]
  /\ before' = Stored
  /\ UNCHANGED <<file, ram, host, label, cert, heap, rc, faults>>

GiveUpSetOk == pc' = "app" /\ rc' = "ok" /\ UNCHANGED <<file, ram>>   \* variant
GiveUpSet == pc' = "app" /\ rc' = "error" /\ UNCHANGED <<file, ram>>

OpenRegion ==
  /\ pc = "open region"
  /\ \/ /\ file' = [file EXCEPT !.region = "empty"]
        /\ pc' = "flush region" /\ UNCHANGED <<ram, rc>>
     \/ "open" \in faults /\ GiveUpSet
  /\ UNCHANGED <<host, label, cert, heap, goal, before, faults>>

FlushRegion ==
  /\ pc = "flush region" /\ pc' = "open key"
  /\ \/ file' = [file EXCEPT !.region = goal.region]
     \/ "flush" \in faults /\ UNCHANGED file
  /\ UNCHANGED <<ram, host, label, cert, heap, rc, goal, before, faults>>

OpenKey ==
  /\ pc = "open key"
  /\ \/ /\ file' = [file EXCEPT !.key = "empty"]
        /\ pc' = "flush key" /\ UNCHANGED <<ram, rc>>
     \/ "open" \in faults /\ GiveUpSet
  /\ UNCHANGED <<host, label, cert, heap, goal, before, faults>>

FlushKey ==
  /\ pc = "flush key" /\ pc' = "app"
  /\ \/ file' = [file EXCEPT !.key = goal.key]
     \/ "flush" \in faults /\ UNCHANGED file
  /\ ram' = goal /\ rc' = "ok"
  /\ UNCHANGED <<host, label, cert, heap, goal, before, faults>>

-----------------------------------------------------------------------------
(* tuya_endpoint_remove; the copies in memory stay.                        *)

Remove ==
  /\ pc = "app" /\ pc' = "remove key"
  /\ goal' = Unset /\ before' = Stored
  /\ file' = [file EXCEPT !.region = "missing"]
  /\ UNCHANGED <<ram, host, label, cert, heap, rc, faults>>

RemoveKey ==
  /\ pc = "remove key" /\ pc' = "app" /\ rc' = "ok"
  /\ file' = [file EXCEPT !.key = "missing"]
  /\ UNCHANGED <<ram, host, label, cert, heap, goal, before, faults>>

-----------------------------------------------------------------------------
(* tuya_endpoint_update and tuya_endpoint_update_auto_region.              *)

Allocated(c) == c \in Blocks

\* The host the service names: of the region asked for, or of one it chooses.
Answers(region, auto) ==
  [from : {"dns"}, key : {IF ram.key = "unset" THEN DefaultKey ELSE ram.key},
   region : IF auto \/ region = "unset" THEN Regions ELSE {region}]

\* Variant: the decoded certificate is released with the reply.
FetchCertFreed(left) ==
  \E b \in Blocks \ left : cert' = b /\ heap' = left /\ rc' = "ok"
\* iotdns_cacert_get: sets the certificate, or fails and leaves it.
FetchCert(left) ==
  \/ \E b \in Blocks \ left : cert' = b /\ heap' = left \cup {b} /\ rc' = "ok"
  \/ "lookup" \in faults /\ heap' = left /\ rc' = "error" /\ UNCHANGED cert

\* Variant: the certificate of the last lookup is not released.
LookupKeepsOld(region, auto) ==
  /\ \E h \in Answers(region, auto) : host' = h
  /\ FetchCert(heap)
  /\ label' = IF auto \/ region = "unset" THEN label ELSE region
  /\ UNCHANGED pc
\* iotdns_cloud_endpoint_get, after the old certificate was released: a reply
\* that names no host is not the end of it, and the region is noted either way.
Lookup(region, auto) ==
  \/ /\ \/ \E h \in Answers(region, auto) : host' = h
        \/ "decode" \in faults /\ UNCHANGED host
     /\ FetchCert(heap \ {cert})
     /\ label' = IF auto THEN label ELSE region
     /\ UNCHANGED pc
  \/ /\ "lookup" \in faults
     /\ heap' = heap \ {cert} /\ rc' = "error"
     /\ UNCHANGED <<host, label, cert, pc>>

Update(auto) ==
  /\ pc = "app"
  /\ IF Allocated(cert) /\ cert \notin heap
       THEN pc' = "undefined" /\ UNCHANGED <<host, label, cert, heap, rc>>
       ELSE Lookup(ram.region, auto)
  /\ goal' = Unset /\ before' = Stored
  /\ UNCHANGED <<file, ram, faults>>

-----------------------------------------------------------------------------
\* The files stay; only a set that had answered is still to be found.
Crash ==
  /\ "crash" \in faults /\ pc # "undefined"
  /\ ram' = Unset /\ host' = NoHost /\ label' = "unset"
  /\ cert' = "null" /\ heap' = {} /\ pc' = "boot" /\ rc' = "ok"
  /\ goal' = IF pc \in {"boot", "app"} /\ rc = "ok" THEN goal ELSE Unset
  /\ UNCHANGED <<file, before, faults>>

Undefined == pc = "undefined" /\ UNCHANGED evars

Next ==
  \/ EndpointInit \/ StartWithoutInit
  \/ Set \/ OpenRegion \/ FlushRegion \/ OpenKey \/ FlushKey
  \/ Remove \/ RemoveKey
  \/ Update(TRUE) \/ Update(FALSE)
  \/ Crash \/ Undefined

Spec == Init /\ [][Next]_evars

-----------------------------------------------------------------------------
(* Properties.                                                             *)

LookupsSucceed == faults \cap {"lookup", "decode"} = {}

\* As long as lookups succeed, over any crash: the SDK frees a certificate
\* once, and the certificate of the endpoint a program gets is one it can use.
CertUsable ==
  LookupsSucceed =>
    /\ pc # "undefined"
    /\ pc = "app" /\ Allocated(cert) => cert \in heap

\* No lookup, whatever of it failed, leaves a certificate behind.
NoCertLeak == pc # "undefined" => heap \subseteq {cert}

\* A set that answered OK has stored the pair: a start reads it back.  (A disk
\* that fills up as the file is closed goes unnoticed.)
StoredIsSet ==
  "flush" \notin faults /\ pc = "app" /\ rc = "ok" /\ goal # Unset => Stored = goal

\* The two writes come in the order a start relies on: wherever a set is cut
\* short, a start never combines the new key with the old region.
KeyNotAheadOfRegion ==
  goal # Unset /\ Stored.key = goal.key /\ Stored.key \notin {before.key, DefaultKey}
    => Stored.region = goal.region

\* A removal is all or nothing to a start, wherever it is cut short.
RemovedTogether ==
  pc = "remove key" => Stored \in {before, WithDefaultKey(Unset)}

\* What a start reads was once a pair, as far as the code can tell.
StartConsistent == KeyNotAheadOfRegion /\ RemovedTogether
=============================================================================
