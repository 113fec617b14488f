--------------------------- MODULE TokenBucketSMP ---------------------------
(***************************************************************************)
(* tc_ingress run concurrently by several CPUs, one step per access to   *)
(* shared memory, in the order of the compiled program:                  *)
(*   lookup (123) | update_elem (132) | load last_ts (137) | load tokens  *)
(*   (146) | store tokens (151) | store last_ts (153) | load tokens for  *)
(*   the test (158), or reuse of the stored value after a refill |       *)
(*   store tokens-1 (159) | load dropped (164) | store dropped+1 (164) |  *)
(*   ringbuf_reserve (167) | load dropped + ringbuf_submit (171-173).     *)
(* The test and the decrement of 158-159 share one load (nothing between *)
(* them may change *st for the compiler), and e->dropped is loaded anew  *)
(* after the bpf_ringbuf_reserve call.                                    *)
(*                                                                         *)
(* rate_map is a preallocated BPF hash map: MaxEntries elements on a     *)
(* free list, plus one spare element per CPU.  bpf_map_update_elem of a  *)
(* new key takes an element from the free list (-E2BIG when empty); of a *)
(* key already present (two CPUs both missed it) it links the CPU's      *)
(* spare element and keeps the old one as its new spare.  A pointer st   *)
(* returned by lookup keeps addressing the element it named, linked or   *)
(* not.                                                                    *)
(***************************************************************************)
EXTENDS BucketMath, Sequences, FiniteSets

CONSTANTS
  CPUs,         \* CPUs running tc_ingress (model values)
  IPs,          \* IPv4 source addresses (model values)
  MaxEntries,   \* rate_map max_entries
  RingCap,      \* ring buffer capacity in event records
  MaxTime,      \* bound on the clock
  MaxPackets,   \* bound on the number of packets
  SpareOf,      \* the spare element each CPU starts with (a function)
  NULL          \* the null pointer

ASSUME /\ MaxEntries \in Nat \ {0} /\ RingCap \in Nat
       /\ MaxTime \in Nat /\ MaxTime < U64 /\ MaxPackets \in Nat

(* Elements of the preallocated map: 1..MaxEntries start on the free     *)
(* list, the others are the spares of the CPUs.                           *)
Elems == 1..MaxEntries \cup {SpareOf[c] : c \in CPUs}

ASSUME /\ DOMAIN SpareOf = CPUs
       /\ \A c \in CPUs : SpareOf[c] > MaxEntries
       /\ \A c, d \in CPUs : c /= d => SpareOf[c] /= SpareOf[d]

VARIABLES
  clock,      \* bpf_ktime_get_ns()
  map,        \* rate_map: key -> element linked for it
  mem,        \* contents of every element
  freelist,   \* elements never linked yet
  spare,      \* each CPU's spare element
  rb,         \* ring buffer records, reserved (busy) or submitted
  delivered,  \* records handed to handle_event, in order (history)
  pkts,       \* packets received so far (bounded by MaxPackets)
  cpu         \* per CPU: program point and registers of tc_ingress

vars == <<clock, map, mem, freelist, spare, rb, delivered, pkts, cpu>>

Idle == [pc |-> "idle", ip |-> NULL, now |-> 0, st |-> NULL, add |-> 0, reg |-> 0]

Local == [pc : {"idle", "insert", "elapsed", "refill", "store_tokens",
                "store_ts", "check", "dec", "load_dropped", "store_dropped",
                "reserve", "submit"},
          ip : IPs \cup {NULL}, now : 0..MaxTime, st : Elems \cup {NULL},
          add : 0..U64-1, reg : 0..U32-1]

(* A ring record; busy until submitted.  snap (a ghost) is the count the *)
(* handler stored at 164 for this drop.                                   *)
Record == [src_ip : IPs, ts_ns : 0..U64-1, dropped : 0..U32-1,
           busy : BOOLEAN, cpu : CPUs, snap : 0..U32-1]

At(c, p) == cpu[c].pc = p
Goto(c, p) == cpu' = [cpu EXCEPT ![c].pc = p]
St(c) == mem[cpu[c].st]
StoreSt(c, field, v) == mem' = [mem EXCEPT ![cpu[c].st][field] = v]

Init ==
  /\ clock = 0
  /\ map = [ip \in {} |-> NULL]
  /\ mem = [e \in Elems |-> [last_ts |-> 0, tokens |-> 0, dropped |-> 0]]
  /\ freelist = 1..MaxEntries
  /\ spare = SpareOf
  /\ rb = <<>>
  /\ delivered = <<>>
  /\ pkts = 0
  /\ cpu = [c \in CPUs |-> Idle]

Tick ==
  /\ clock < MaxTime
  /\ clock' = clock + 1
  /\ UNCHANGED <<map, mem, freelist, spare, rb, delivered, pkts, cpu>>

(* A frame that is not IPv4 or is cut short: admitted, nothing touched.  *)
PassThrough(c) ==
  /\ At(c, "idle") /\ pkts < MaxPackets
  /\ pkts' = pkts + 1
  /\ UNCHANGED <<clock, map, mem, freelist, spare, rb, delivered, cpu>>

(* An IPv4 packet from ip: read the clock, look the source up.           *)
Receive(c, ip) ==
  /\ At(c, "idle") /\ pkts < MaxPackets
  /\ pkts' = pkts + 1
  /\ cpu' = [cpu EXCEPT ![c] =
               [Idle EXCEPT !.ip = ip, !.now = clock,
                  !.st = IF ip \in DOMAIN map THEN map[ip] ELSE NULL,
                  !.pc = IF ip \in DOMAIN map THEN "elapsed" ELSE "insert"]]
  /\ UNCHANGED <<clock, map, mem, freelist, spare, rb, delivered>>

-----------------------------------------------------------------------------
(* First-seen source: bpf_map_update_elem(BPF_ANY), then admit.          *)

(* The key is still absent and an element is free: link it.             *)
InsertNew(c) ==
  LET e == CHOOSE x \in freelist : \A y \in freelist : x <= y
  IN  /\ At(c, "insert") /\ cpu[c].ip \notin DOMAIN map /\ freelist /= {}
      /\ mem' = [mem EXCEPT ![e] = NewState(cpu[c].now)]
      /\ map' = [k \in DOMAIN map \cup {cpu[c].ip} |->
                   IF k = cpu[c].ip THEN e ELSE map[k]]
      /\ freelist' = freelist \ {e}
      /\ cpu' = [cpu EXCEPT ![c] = Idle]
      /\ UNCHANGED <<clock, spare, rb, delivered, pkts>>

(* The key is absent and no element is free: -E2BIG, ignored.           *)
InsertFull(c) ==
  /\ At(c, "insert") /\ cpu[c].ip \notin DOMAIN map /\ freelist = {}
  /\ cpu' = [cpu EXCEPT ![c] = Idle]
  /\ UNCHANGED <<clock, map, mem, freelist, spare, rb, delivered, pkts>>

(* Another CPU linked the key since the lookup: replace its element by  *)
(* this CPU's spare, which now holds the fresh state.                    *)
InsertReplace(c) ==
  LET ip == cpu[c].ip
  IN  /\ At(c, "insert") /\ ip \in DOMAIN map
      /\ mem' = [mem EXCEPT ![spare[c]] = NewState(cpu[c].now)]
      /\ map' = [map EXCEPT ![ip] = spare[c]]
      /\ spare' = [spare EXCEPT ![c] = map[ip]]
      /\ cpu' = [cpu EXCEPT ![c] = Idle]
      /\ UNCHANGED <<clock, freelist, rb, delivered, pkts>>

-----------------------------------------------------------------------------
(* Known source: refill.                                                  *)

(* Load last_ts; elapsed = now - last_ts in u64; compute the tokens due. *)
ReadElapsed(c) ==
  LET add == TokensToAdd(St(c).last_ts, cpu[c].now)
  IN  /\ At(c, "elapsed")
      /\ cpu' = [cpu EXCEPT ![c].add = add,
                            ![c].pc = IF add > 0 THEN "refill" ELSE "check"]
      /\ UNCHANGED <<clock, map, mem, freelist, spare, rb, delivered, pkts>>

(* Load tokens and compute min(tokens + add, burst).                      *)
LoadTokens(c) ==
  /\ At(c, "refill")
  /\ cpu' = [cpu EXCEPT ![c].reg = CappedTokens(St(c).tokens, cpu[c].add),
                        ![c].pc = "store_tokens"]
  /\ UNCHANGED <<clock, map, mem, freelist, spare, rb, delivered, pkts>>

StoreTokens(c) ==
  /\ At(c, "store_tokens")
  /\ StoreSt(c, "tokens", cpu[c].reg)
  /\ Goto(c, "store_ts")
  /\ UNCHANGED <<clock, map, freelist, spare, rb, delivered, pkts>>

StoreTs(c) ==
  /\ At(c, "store_ts")
  /\ StoreSt(c, "last_ts", cpu[c].now)
  /\ Goto(c, "check")
  /\ UNCHANGED <<clock, map, freelist, spare, rb, delivered, pkts>>

-----------------------------------------------------------------------------
(* Decision.                                                               *)

(* tokens > 0 ?  After a refill the value just stored is reused;         *)
(* otherwise tokens is loaded.                                            *)
Check(c) ==
  LET v == IF cpu[c].add > 0 THEN cpu[c].reg ELSE St(c).tokens
  IN  /\ At(c, "check")
      /\ cpu' = [cpu EXCEPT ![c].reg = v,
                            ![c].pc = IF v > 0 THEN "dec" ELSE "load_dropped"]
      /\ UNCHANGED <<clock, map, mem, freelist, spare, rb, delivered, pkts>>

(* tokens-- from the tested value; admit.                                *)
Dec(c) ==
  /\ At(c, "dec")
  /\ StoreSt(c, "tokens", cpu[c].reg - 1)
  /\ cpu' = [cpu EXCEPT ![c] = Idle]
  /\ UNCHANGED <<clock, map, freelist, spare, rb, delivered, pkts>>

(* dropped++ as a load and a store.                                       *)
LoadDropped(c) ==
  /\ At(c, "load_dropped")
  /\ cpu' = [cpu EXCEPT ![c].reg = St(c).dropped, ![c].pc = "store_dropped"]
  /\ UNCHANGED <<clock, map, mem, freelist, spare, rb, delivered, pkts>>

StoreDropped(c) ==
  /\ At(c, "store_dropped")
  /\ StoreSt(c, "dropped", ToU32(cpu[c].reg + 1))
  /\ Goto(c, "reserve")
  /\ UNCHANGED <<clock, map, freelist, spare, rb, delivered, pkts>>

(* Fault variant: the reservation ignores the ring's capacity.          *)
ReserveNoCap(c) ==
  /\ At(c, "reserve")
  /\ rb' = Append(rb, [src_ip |-> cpu[c].ip, ts_ns |-> cpu[c].now,
                       dropped |-> 0, busy |-> TRUE, cpu |-> c,
                       snap |-> ToU32(cpu[c].reg + 1)])
  /\ Goto(c, "submit")
  /\ UNCHANGED <<clock, map, mem, freelist, spare, delivered, pkts>>

(* bpf_ringbuf_reserve succeeds: a busy record is placed in the ring.    *)
Reserve(c) ==
  /\ At(c, "reserve") /\ Len(rb) < RingCap
  /\ rb' = Append(rb, [src_ip |-> cpu[c].ip, ts_ns |-> cpu[c].now,
                       dropped |-> 0, busy |-> TRUE, cpu |-> c,
                       snap |-> ToU32(cpu[c].reg + 1)])
  /\ Goto(c, "submit")
  /\ UNCHANGED <<clock, map, mem, freelist, spare, delivered, pkts>>

(* bpf_ringbuf_reserve returns NULL: no event; drop.                     *)
ReserveFail(c) ==
  /\ At(c, "reserve") /\ Len(rb) >= RingCap
  /\ cpu' = [cpu EXCEPT ![c] = Idle]
  /\ UNCHANGED <<clock, map, mem, freelist, spare, rb, delivered, pkts>>

(* e->dropped = st->dropped; bpf_ringbuf_submit; drop.                    *)
Submit(c) ==
  LET i == CHOOSE j \in 1..Len(rb) : rb[j].busy /\ rb[j].cpu = c
  IN  /\ At(c, "submit")
      /\ rb' = [rb EXCEPT ![i].dropped = St(c).dropped, ![i].busy = FALSE]
      /\ cpu' = [cpu EXCEPT ![c] = Idle]
      /\ UNCHANGED <<clock, map, mem, freelist, spare, delivered, pkts>>

(* The consumer reads records in ring order and stops at a busy one.     *)
HandleEvent ==
  /\ rb /= <<>> /\ ~Head(rb).busy
  /\ delivered' = Append(delivered, [src_ip |-> Head(rb).src_ip,
                                     ts_ns |-> Head(rb).ts_ns,
                                     dropped |-> Head(rb).dropped])
  /\ rb' = Tail(rb)
  /\ UNCHANGED <<clock, map, mem, freelist, spare, pkts, cpu>>

(* Every step of tc_ingress after the packet has arrived.                 *)
Step(c) ==
  \/ InsertNew(c) \/ InsertFull(c) \/ InsertReplace(c)
  \/ ReadElapsed(c) \/ LoadTokens(c) \/ StoreTokens(c) \/ StoreTs(c)
  \/ Check(c) \/ Dec(c) \/ LoadDropped(c) \/ StoreDropped(c)
  \/ Reserve(c) \/ ReserveFail(c) \/ Submit(c)

Next ==
  \/ Tick
  \/ HandleEvent
  \/ \E c \in CPUs : PassThrough(c) \/ Step(c) \/ \E ip \in IPs : Receive(c, ip)

Spec == Init /\ [][Next]_vars

-----------------------------------------------------------------------------
(* Properties                                                              *)

TypeOK ==
  /\ clock \in 0..MaxTime
  /\ DOMAIN map \subseteq IPs /\ \A ip \in DOMAIN map : map[ip] \in Elems
  /\ mem \in [Elems -> RateState]
  /\ freelist \subseteq 1..MaxEntries /\ spare \in [CPUs -> Elems]
  /\ rb \in Seq(Record) /\ Len(rb) <= RingCap
  /\ pkts \in 0..MaxPackets
  /\ cpu \in [CPUs -> Local]

(* Under every interleaving of CPUs on one bucket, including stores     *)
(* through pointers to replaced elements, tokens stay within burst.      *)
TokensBounded == \A e \in Elems : mem[e].tokens <= Burst

(* The spec (3): a DropEvent carries a snapshot of the source's counter *)
(* at drop time, the count the handler's own increment at 164 stored.     *)
(* Every record handle_event can consume carries it.                      *)
EventCountIsSnapshot ==
  \A i \in 1..Len(rb) : ~rb[i].busy => rb[i].dropped = rb[i].snap

(* The spec's droppedCount is non-decreasing for each source: the count *)
(* of the element linked for a source never goes down.                   *)
DroppedNeverDecreases ==
  [][\A ip \in DOMAIN map :
       mem'[map'[ip]].dropped >= mem[map[ip]].dropped]_vars

(* The spec: zero or negative elapsed time (now before last_ts) grants   *)
(* no refill.                                                              *)
NegativeElapsedNoRefill ==
  [][\A c \in CPUs :
       (ReadElapsed(c) /\ cpu[c].now < St(c).last_ts) => cpu'[c].add = 0]_vars

(* The spec's independence of sources: a CPU handling a packet from one  *)
(* source writes only that source's bucket, never the bucket linked for  *)
(* another source.                                                        *)
BucketsIsolated ==
  [][\A c \in CPUs, ip \in DOMAIN map :
       (StoreTokens(c) \/ StoreTs(c) \/ Dec(c) \/ StoreDropped(c))
         /\ cpu[c].st = map[ip] => cpu[c].ip = ip]_vars

=============================================================================
