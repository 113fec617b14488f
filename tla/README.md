# TLA+ models of the eBPF per-source rate limiter

This directory holds TLC-checkable models of the rate limiter in
`src/rateLimitter/`. Its three sources are concatenated in
`src/rateLimitter/common_um.h`; line numbers below refer to that file:

| lines   | original file        | role                                      |
|---------|----------------------|-------------------------------------------|
| 1–20    | `common_um.h`        | shared declarations                       |
| 21–178  | `rateLimiter.bpf.c`  | TC ingress program `tc_ingress`, maps     |
| 179–469 | `rateLimiter.c`      | userspace loader, CLI, poll loop          |

`src/unnamed/part_000` is `common_um.c`, which holds `setup()`,
`bump_memlock_rlimit()` and `handle_signal()`. `src/bad-bpf` contains only a
README and is not modelled.

## The system

* **Admission engine** (`tc_ingress`, 88–178). It runs on every CPU for
  every ingress frame.
  * Non-IPv4 or truncated frames pass with no state access (101–111).
  * Otherwise it reads `now_ns` (116) and looks up the source's
    `rate_state` (123).
  * On a miss it inserts `{now, burst-1, 0}` with `BPF_ANY`, ignores the
    result and admits the packet (124–134).
  * On a hit it refills by `elapsed * rate / 1e9`, capped at `burst`
    (136–155). It then takes a token (157–161), or increments `dropped`
    (164), emits an event to the ring buffer and drops the packet (166–177).
* **State store** `rate_map`, a `BPF_MAP_TYPE_HASH` with 16384 entries
  (72–77). Preallocated: elements come from a free list, and an update of a
  present key swaps in a per-CPU spare element and keeps the replaced one
  as the new spare.
* **Event channel**: the ring buffer `rb` (58–62) and `handle_event`
  (303–332), called by `ring_buffer__poll`. Records are reserved, then
  submitted. The consumer stops at the first record that is still being
  written.
* **Lifecycle manager**: `main` (388–469), `parse_arg` (242–284),
  `attach_tc` (339–385), `setup` and `handle_signal`.
  * The program parses `--rate/--burst/--iface`, installs SIGINT and
    SIGTERM handlers, then opens, configures (.rodata), loads and attaches
    the program.
  * It polls the ring buffer every 100 ms until `exiting` is set, then
    destroys the skeleton.
  * The qdisc and the TC filter on the interface belong to the kernel and
    outlive the process.

How the parts interact: the CLI values become the .rodata constants of the
BPF program. Many CPUs share `rate_map` and produce into `rb`. The single
userspace thread consumes `rb`. Signals end the loop.

## Modules

| module | models | state ↔ code |
|---|---|---|
| `BucketMath` | the arithmetic of 125–155 | `NewState` (first-seen init), `TokensToAdd` (u64 elapsed and product, integer division), `CappedTokens` (cap at `(__u64)burst`, u32 store), `Refill` (the refill block), `RateState` (struct rate_state) |
| `TokenBucket` | `tc_ingress` with one packet per atomic step, and `handle_event` | `rate_map` is a partial function IP → `RateState`; `rb` and `delivered` are sequences of `struct event`; `clock` is `bpf_ktime_get_ns`. There is one action per path: `PassThrough`, `FirstSeen`, `FirstSeenMapFull`, `Admit`, `Drop` and `HandleEvent`. |
| `TokenBucketHist` | TokenBucket plus a history variable | `hist[ip]` records the admission times of a source since its entry was created. It only observes TokenBucket's steps. |
| `TokenBucketSMP` | `tc_ingress` interleaved across CPUs, one shared-memory access per step | `map` (key → element), `mem` (element → rate_state), `freelist` and `spare` (the preallocated htab), and `cpu[c]` holding the handler's locals (`pc`, `ip`, `now_ns`, `st` pointer, `add`, register). The steps follow the compiled order: `Receive` (116, 123), `InsertNew/InsertFull/InsertReplace` (132), `ReadElapsed` (137–145), `LoadTokens/StoreTokens/StoreTs` (146–153), `Check` (158, which reuses the refilled value), `Dec` (159), `LoadDropped/StoreDropped` (164, `++` is not atomic), `Reserve/ReserveFail` (167), `Submit` (169–173, `e->dropped` reloaded). Ring records carry a `busy` bit until submitted. |
| `CliArgs` | what `parse_arg` makes of `--rate`/`--burst` | `Strtol` (clamping, ERANGE), `ArgRejected` (`errno \|\| val <= 0`), `ToInt` (`(int)val`) |
| `RateLimiter` | loader configuration composed with the kernel bucket | `Rodata` is `env.rate`/`env.burst` after parsing, written to `.rodata` at 421–422. `Kernel == INSTANCE TokenBucket WITH Rate <- Rodata.rate, Burst <- Rodata.burst` is what runs. `Configured` is the same module with the accepted `--rate` and `--burst` values; `ConfiguredBucket` checks that the kernel implements it. |
| `Lifecycle` | `main`, `parse_arg`, `attach_tc`, `setup`, `handle_signal` | `phase` is main's program counter. It also holds `exiting`, `handlers`, `env`, `err`, the count of `pending` events, and the kernel objects `iface`, `qdisc` and `filters`, which survive `Restart`. `Parse` handles strtol, ERANGE, the `<=0` check and `(int)val` (from CliArgs), and the `--iface` length check; `IfaceArgs` reduces the name to an existing interface, a missing one, or one of IFNAMSIZ characters or more. `Attach` fails with -1 when the interface is missing and -EINVAL when there is no clsact hook. `PollEnter`/`PollEvents`/`PollTimeout`/`PollError` model `ring_buffer__poll`. `Setup` (setrlimit) and `InstallHandler` (`signal()` for SIGINT, then for SIGTERM) can each fail. `handlers` is the set of signals whose handler is installed. `Signal(sig)` kills the process when `sig` has no handler yet, yields -EINTR in `epoll_wait`, and otherwise sets `exiting`. `KernelEvent` adds to `pending` only while this run's filter is attached and its ring exists. The newest filter classifies first and ends classification with its direct-action verdict, so the filters of earlier runs write into rings that no process reads. |

Each `MC*.tla` module supplies the model values for TLC (CPUs, IPs, spare
element numbers, and the CLI arguments to try).

### Widths and scaling

TLC integers are 32-bit, so the code's widths are scaled down while the
modular arithmetic is kept:

| code width | model constant |
|---|---|
| u64 | `U64` (e.g. 64) |
| u32 | `U32` (16 or 4) |
| 1e9 ns/s | `NsPerSec` (2 or 16) |
| int | `IntBits` = 4 |
| long | `LongBits` = 8 |

A wrap in the model corresponds to the same wrap at full width. The model
reaches it in a few steps; the code needs hours of idle time or billions
of drops.

## Runs

| run | cfg | expect | what it shows |
|---|---|---|---|
| tb_safety | MCTokenBucket.cfg | pass | `WindowBound`: between any two admissions of a source, at most burst plus the whole tokens earned in between were admitted. Drop events of a source carry increasing counts. A source owed a token is admitted. (3 IPs, 2 map entries so the map fills, ring of 2, 7 packets, clock to 6; symmetry over IPs.) |
| tb_refill_overflow | MCTokenBucketOverflow.cfg | violation | `elapsed * rate` wraps in u64 (143). When the product lands just past a multiple of 2^64, the refill comes out as 0 or a few tokens and a source owed tokens is dropped. At full width this happens only in narrow windows of idle time (about 4.9 h apart at `--rate` 2^20), and the run shows one such window. |
| smp_safety | MCTokenBucketSMP.cfg | pass | With 2 CPUs, 2 IPs, 1 map entry (so both insert failure and replace occur), burst 2 and 5 packets, tokens stay in [0, burst] under every interleaving of the handlers' loads and stores. |
| smp_dropped_count | MCTokenBucketSMPDropped.cfg | violation | Two CPUs insert the same new source with `BPF_ANY`, and `dropped` is reset (132). |
| smp_event_snapshot | MCTokenBucketSMPSnapshot.cfg | violation | `e->dropped` is reloaded from the shared counter after `bpf_ringbuf_reserve` (171). A drop on another CPU in between is therefore counted in this drop's event: CPU p1 stores 1 and reports 2. `Record.snap` is a ghost field holding the count the handler stored. |
| smp_negative_elapsed | MCTokenBucketSMPClock.cfg | violation | A CPU holding an older `now_ns` sees a wrapped elapsed time and refills to burst (116/137). |
| smp_isolation | MCTokenBucketSMPIsolation.cfg | violation | With 3 CPUs, a stale `st` pointer writes into an element recycled for another source (123/132). |
| lifecycle | MCLifecycle.cfg | pass | Every failed step ends with a non-zero status. A shutdown signal always ends main (2 runs, args {0,3,8,16,300} against int of 4 bits, 2 load errnos, 1 poll errno). |
| lc_exit_status | MCLifecycleExitStatus.cfg | violation | A signal arriving outside `epoll_wait` after events were consumed gives `return -err` ≠ 0 (469). |
| lc_detach | MCLifecycleDetach.cfg | violation | The TC filter stays attached after exit (467–468). |
| lc_attach | MCLifecycleAttach.cfg | violation | The missing `bpf_tc_hook_create` makes attach fail on an existing interface (364–375). |
| rl_configured_bucket | MCRateLimiterRate.cfg | violation | `--rate 16` with 4-bit ints is accepted and stored as 0. The kernel then never refills (139), and the first packet after a tick, which the configured bucket would pay from a refilled bucket, takes its last token instead. The run shows only the rate half. A truncated `--burst` (a new source gets 0 tokens, and the cap at 147 never applies) would break the same property, but no run here configures one. |

Why the bounds are enough:

* The ring and map capacities are one or two less than the number of
  sources and packets, so the full-map and full-ring paths are reached.
* The clock bound covers a refill after an idle period.
* In `smp_safety`, 5 packets on 2 CPUs and a bucket of 2 let every pair of steps of two
  handlers interleave on one bucket.
* The isolation race needs two replacements and a third CPU, hence 3 CPUs
  and 6 packets in its own run.

* `WindowBound` quantifies over all pairs of admissions. 7 packets over the 7
  clock values 0–6 cover a full burst, a drain, a refill hitting the cap, and
  fractional refills. The property was also checked with rates 1–3,
  bursts 2–3 and NsPerSec 2–5 on one source.

Every property of a passing run has a mutant: a plausible bug in a mapped
definition (see `mutants` in PROJECT.json) under which TLC finds that
property violated.

### Fairness and deadlock

* **The poll loop keeps running.** `main` calls `ring_buffer__poll` with a
  100 ms timeout in a loop, so the loader's own steps (`Progress` in
  Lifecycle) are weakly fair.
  `PollError` is left out of `Progress`: an error from `epoll_wait` is
  not guaranteed to happen.
* **The environment gets no fairness.** Packet arrival, clock ticks,
  signals, restarts and kernel events come from outside.

All cfgs say `CHECK_DEADLOCK FALSE`: traffic may stop, the process really
exits, and the models stop at their named bounds (`MaxPackets`, `MaxTime`,
`MaxRuns`).

## Findings

Each finding is detailed in PROJECT.json `findings`:

1. u64 overflow of the refill product (143).
2. The drop counter is reset or loses increments under concurrency
   (132, 164).
3. A drop event reports the counter at submit time, not at its own drop
   (171).
4. A wrapped negative elapsed refills to burst (137).
5. Stale element pointers break isolation between sources (123).
6. A clean shutdown can exit non-zero (469).
7. The TC filter is never detached (468).
8. The clsact hook is never created (364).
9. `(int)` truncation of arguments (262, 271). A truncated rate of 0 or
   below stops the refill for good (139); a truncated burst disables the
   cap (147).

The u32 `dropped` counter also wraps after 2^32 drops of one source (164),
so reported totals restart at 0. It is listed as a hazard rather than as a
run, because the spec itself declares the counter as u32. `DropEventsOrdered` catches the wrap: with `U32 = 4` in
MCTokenBucket.cfg, the fourth drop of one source is reported as 0 and TLC
finds the invariant violated. tb_safety keeps `U32 = 16`, so that it passes.

A full map (132) fails open, which spec 7 accepts, so it is neither a
finding nor a property.

A minor point: the spec describes a 16-byte event, but `struct event` is
24 bytes with padding. Both sides share the declaration, so no property is
affected.

## Not modelled, and plan

Not modelled:

* the formatting in `handle_event` (`inet_ntop`, `printf`);
* argp internals, the `--iface` string copy (the name is reduced to which interface it names), `--verbose` (a log line only) and `--help` (argp prints and exits before `parse_arg`);
* skeleton generation and the verifier;
* the byte layout of the ring buffer (it is modelled in records);
* bad-bpf.

Planned for later work:

* **Ring buffer in bytes:** modelling the consumer and producer positions
  in bytes.
* **Loader and kernel in one state machine:** the attached filter runs
  tc_ingress with the `.rodata` of its own load, and the poll loop drains
  the ring. RateLimiter composes only the configuration.
* **A refinement of the step-by-step handler:** this is only worth checking
  with several CPUs and against a weaker abstract specification, since spec
  4.2 accepts over-admission under concurrency. With one CPU the two models
  are translations of the same lines, so such a check shows nothing.
* **Eventual delivery of events:** that reserved records are eventually
  submitted is assured by the BPF verifier, which rejects a program that
  keeps a reservation. No bug in this code could break it, so it is not
  checked.
