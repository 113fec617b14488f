---------------------------- MODULE TokenBucket ----------------------------
(***************************************************************************)
(* The per-source token bucket of the TC ingress program tc_ingress       *)
(* (rateLimiter.bpf.c, the second file of src/rateLimitter/common_um.h),  *)
(* with one packet handled in one atomic step: the behaviour of the       *)
(* program when no two CPUs run it for the same source at once.  The      *)
(* interleaved, per-CPU version is TokenBucketSMP.                         *)
(*                                                                         *)
(* State: the hash map rate_map (source -> rate_state), the BPF ring      *)
(* buffer rb of drop events, the monotonic clock read by                  *)
(* bpf_ktime_get_ns, and the events the userspace callback handle_event   *)
(* has printed.  Integer widths are kept: u64 arithmetic is modulo U64    *)
(* and u32 fields modulo U32, both scaled down, as is NsPerSec (1e9).     *)
(***************************************************************************)
EXTENDS BucketMath, Sequences, FiniteSets

CONSTANTS
  IPs,          \* IPv4 source addresses seen on the interface (model values)
  MaxEntries,   \* rate_map max_entries (16384 in the code)
  RingCap,      \* ring buffer capacity in event records (256 KiB / record)
  MaxTime,      \* bound on the clock
  MaxPackets    \* bound on the number of packets

ASSUME /\ MaxEntries \in Nat \ {0} /\ RingCap \in Nat
       /\ MaxTime \in Nat /\ MaxTime < U64 /\ MaxPackets \in Nat

VARIABLES
  clock,      \* bpf_ktime_get_ns()
  rate_map,   \* function from the keys present to struct rate_state
  rb,         \* ring buffer: submitted, not yet consumed struct event records
  delivered,  \* records handed to handle_event, in order (history)
  pkts        \* packets handled so far (bounded by MaxPackets)

vars == <<clock, rate_map, rb, delivered, pkts>>

Event == [src_ip : IPs, ts_ns : 0..U64-1, dropped : 0..U32-1]

(* Fault variant: the reservation ignores the ring's capacity.          *)
RingbufOutputNoCap(e) == Append(rb, e)

(* bpf_ringbuf_reserve + bpf_ringbuf_submit: the record is lost when the *)
(* ring has no room; the packet is dropped all the same.                  *)
RingbufOutput(e) == IF Len(rb) < RingCap THEN Append(rb, e) ELSE rb

Init ==
  /\ clock = 0
  /\ rate_map = [ip \in {} |-> NewState(0)]
  /\ rb = <<>>
  /\ delivered = <<>>
  /\ pkts = 0

(* Time passes between packets.                                           *)
Tick ==
  /\ clock < MaxTime
  /\ clock' = clock + 1
  /\ UNCHANGED <<rate_map, rb, delivered, pkts>>

(* A frame that is not IPv4, or whose Ethernet or IP header is cut short: *)
(* admitted with no state access.                                         *)
PassThrough ==
  /\ pkts < MaxPackets
  /\ pkts' = pkts + 1
  /\ UNCHANGED <<clock, rate_map, rb, delivered>>

(* Lookup misses and the map has room: insert the new state, admit.      *)
FirstSeen(ip) ==
  /\ pkts < MaxPackets
  /\ ip \notin DOMAIN rate_map
  /\ Cardinality(DOMAIN rate_map) < MaxEntries
  /\ rate_map' = [k \in DOMAIN rate_map \cup {ip} |->
                    IF k = ip THEN NewState(clock) ELSE rate_map[k]]
  /\ pkts' = pkts + 1
  /\ UNCHANGED <<clock, rb, delivered>>

(* Lookup misses and the map is full: bpf_map_update_elem fails, its     *)
(* result is ignored, the packet is admitted, nothing is remembered.      *)
FirstSeenMapFull(ip) ==
  /\ pkts < MaxPackets
  /\ ip \notin DOMAIN rate_map
  /\ Cardinality(DOMAIN rate_map) >= MaxEntries
  /\ pkts' = pkts + 1
  /\ UNCHANGED <<clock, rate_map, rb, delivered>>

(* Lookup hits, refill, a token is left: consume it and admit.           *)
Admit(ip) ==
  LET st == Refill(rate_map[ip], clock)
  IN  /\ pkts < MaxPackets
      /\ ip \in DOMAIN rate_map
      /\ st.tokens > 0
      /\ rate_map' = [rate_map EXCEPT ![ip] = [st EXCEPT !.tokens = @ - 1]]
      /\ pkts' = pkts + 1
      /\ UNCHANGED <<clock, rb, delivered>>

(* Fault variant: the incremented count goes into the event only.       *)
DropNoPersist(ip) ==
  LET st == Refill(rate_map[ip], clock)
      d  == ToU32(st.dropped + 1)
  IN  /\ pkts < MaxPackets
      /\ ip \in DOMAIN rate_map
      /\ st.tokens = 0
      /\ rate_map' = [rate_map EXCEPT ![ip] = st]
      /\ rb' = RingbufOutput([src_ip |-> ip, ts_ns |-> clock, dropped |-> d])
      /\ pkts' = pkts + 1
      /\ UNCHANGED <<clock, delivered>>

(* Lookup hits, refill, no token: count the drop, emit the event with    *)
(* the new count, drop the packet.                                         *)
Drop(ip) ==
  LET st == Refill(rate_map[ip], clock)
      d  == ToU32(st.dropped + 1)
  IN  /\ pkts < MaxPackets
      /\ ip \in DOMAIN rate_map
      /\ st.tokens = 0
      /\ rate_map' = [rate_map EXCEPT ![ip] = [st EXCEPT !.dropped = d]]
      /\ rb' = RingbufOutput([src_ip |-> ip, ts_ns |-> clock, dropped |-> d])
      /\ pkts' = pkts + 1
      /\ UNCHANGED <<clock, delivered>>

(* ring_buffer__poll hands the oldest record to handle_event.             *)
HandleEvent ==
  /\ rb /= <<>>
  /\ delivered' = Append(delivered, Head(rb))
  /\ rb' = Tail(rb)
  /\ UNCHANGED <<clock, rate_map, pkts>>

Next ==
  \/ Tick
  \/ PassThrough
  \/ HandleEvent
  \/ \E ip \in IPs : FirstSeen(ip) \/ FirstSeenMapFull(ip) \/ Admit(ip) \/ Drop(ip)

Spec == Init /\ [][Next]_vars

-----------------------------------------------------------------------------
(* Properties                                                              *)

TypeOK ==
  /\ clock \in 0..MaxTime
  /\ DOMAIN rate_map \subseteq IPs
  /\ \A ip \in DOMAIN rate_map : rate_map[ip] \in RateState
  /\ rb \in Seq(Event) /\ Len(rb) <= RingCap
  /\ delivered \in Seq(Event)
  /\ pkts \in 0..MaxPackets

(* The drop events of one source, as submitted to the ring buffer and    *)
(* printed by handle_event, carry strictly increasing dropped counts, the *)
(* last of them no larger than the count in rate_map.                     *)
DropEventsOrdered ==
  \A ip \in IPs :
    LET s == SelectSeq(delivered \o rb, LAMBDA e : e.src_ip = ip)
    IN  /\ \A i \in 1..Len(s)-1 : s[i].dropped < s[i+1].dropped
        /\ s /= <<>> => ip \in DOMAIN rate_map
                        /\ s[Len(s)].dropped <= rate_map[ip].dropped

(* Refill promise of the spec: a packet from a known source arriving at  *)
(* least one token's worth of time (1/rate s) after the last refill of   *)
(* its bucket is admitted, never dropped.                                  *)
RefillAdmitsAfterIdle ==
  [][\A ip \in IPs :
       Drop(ip) => (clock - rate_map[ip].last_ts) * Rate < NsPerSec]_vars

=============================================================================
