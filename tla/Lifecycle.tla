----------------------------- MODULE Lifecycle -----------------------------
(***************************************************************************)
(* The userspace loader rateLimiter.c (third file of                      *)
(* src/rateLimitter/common_um.h) with setup() and handle_signal() of      *)
(* common_um.c (src/unnamed/part_000): main() as a state machine from     *)
(* argp_parse to the return of -err, the SIGINT/SIGTERM flag exiting,     *)
(* and the part of the kernel that outlives the process: the clsact      *)
(* qdisc and the TC filters on the interface's ingress hook.  The        *)
(* operator may start the program again after it exits (up to MaxRuns).  *)
(*                                                                         *)
(* Integer widths: int and long are scaled to IntBits and LongBits bits;  *)
(* a --rate / --burst argument is the number its digits denote.           *)
(***************************************************************************)
EXTENDS Integers, CliArgs

CONSTANTS
  Args,         \* numbers given as --rate / --burst arguments
  Default,      \* env.rate / env.burst before argp_parse (1000 / 200)
  LoadErrs,     \* errno values rateLimiter_bpf__load may fail with
  PollErrs,     \* errno values ring_buffer__poll may fail with (not EINTR)
  MaxEvents,    \* most drop events one ring_buffer__poll consumes
  MaxRuns       \* bound on the number of times the program is started

ASSUME /\ Args \subseteq Int /\ Default \in Int
       /\ LoadErrs \subseteq Nat \ {0} /\ PollErrs \subseteq Nat \ {0}
       /\ MaxEvents \in Nat \ {0} /\ MaxRuns \in Nat \ {0}

EINTR  == 4
EINVAL == 22
EX_USAGE == 64              \* argp_err_exit_status, used by argp_usage
KILLED == -1                \* status of a run ended by the signal itself

(* Fault variant: ring_buffer__poll waits without a timeout.            *)
PollTimeoutMsInfinite == -1

(* The timeout main passes to ring_buffer__poll, in ms (-1: none).      *)
PollTimeoutMs == 100

VARIABLES
  phase,      \* where main() is
  exiting,    \* volatile sig_atomic_t exiting
  handlers,   \* signals whose handler setup() has installed
  env,        \* env.rate, env.burst
  err,        \* main's err
  failed,     \* ghost: the step whose failure ended the run, or "none"
  pending,    \* drop events waiting in this run's ring buffer
  iface,      \* the interface named by --iface exists
  qdisc,      \* a clsact qdisc exists on it (kernel, outlives the process)
  filters,    \* TC ingress filters running tc_ingress (kernel, outlives it)
  status,     \* exit status of the last run, or KILLED
  runs        \* runs started so far

config == <<handlers, env, iface>>     \* set up once per run
kernel == <<qdisc, filters>>           \* survives the process
vars == <<phase, exiting, err, failed, pending, config, kernel, status, runs>>

Signals == {"SIGINT", "SIGTERM"}

Phases == {"parse", "setup", "open", "load", "attach", "rb_new", "loop",
           "poll_call", "poll", "cleanup", "exited"} \cup Signals

Init ==
  /\ phase = "parse" /\ exiting = 0 /\ handlers = {}
  /\ env = [rate |-> Default, burst |-> Default]
  /\ err = 0 /\ failed = "none" /\ pending = 0 /\ iface = FALSE
  /\ qdisc \in BOOLEAN /\ filters = 0 /\ status = 0 /\ runs = 1

(* The operator starts the program again: nothing of the previous run   *)
(* survives but the kernel's qdisc and filters.                           *)
Restart ==
  /\ phase = "exited" /\ runs < MaxRuns
  /\ runs' = runs + 1
  /\ phase' = "parse" /\ exiting' = 0 /\ handlers' = {}
  /\ env' = [rate |-> Default, burst |-> Default]
  /\ err' = 0 /\ failed' = "none" /\ pending' = 0 /\ iface' = FALSE
  /\ UNCHANGED <<kernel, status>>

Exit(code) == phase' = "exited" /\ status' = code

(* The --iface argument: the name of an existing interface, a name no    *)
(* interface has, or a name of IFNAMSIZ characters or more.               *)
IfaceArgs == {"present", "absent", "too_long"}

(* argp_parse with parse_arg: -r and -b values are checked as longs and  *)
(* stored as ints, -i is checked against IFNAMSIZ; a rejected value ends  *)
(* in argp_usage -> exit(EX_USAGE).                                       *)
Parse ==
  /\ phase = "parse"
  /\ \E r, b \in Args \cup {Default}, i \in IfaceArgs :
       IF ArgRejected(r) \/ ArgRejected(b) \/ i = "too_long"
         THEN Exit(EX_USAGE) /\ failed' = "parse" /\ UNCHANGED <<env, iface>>
         ELSE /\ env' = [rate |-> ToInt(Strtol(r)), burst |-> ToInt(Strtol(b))]
              /\ iface' = (i = "present")
              /\ phase' = "setup"
              /\ UNCHANGED <<status, failed>>
  /\ UNCHANGED <<exiting, handlers, err, pending, kernel, runs>>

(* setup(): setrlimit(RLIMIT_MEMLOCK) may fail; setup() then returns     *)
(* false and main returns 1.                                              *)
Setup ==
  /\ phase = "setup"
  /\ \/ phase' = "SIGINT" /\ UNCHANGED <<status, failed>>
     \/ Exit(1) /\ failed' = "setup"
  /\ UNCHANGED <<exiting, err, pending, config, kernel, runs>>

(* setup(): signal(SIGINT, ...), then signal(SIGTERM, ...); SIG_ERR makes *)
(* setup() return false and main return 1.                                *)
InstallHandler ==
  /\ phase \in Signals
  /\ \/ /\ handlers' = handlers \cup {phase}
        /\ phase' = IF phase = "SIGINT" THEN "SIGTERM" ELSE "open"
        /\ UNCHANGED <<status, failed>>
     \/ Exit(1) /\ failed' = "setup" /\ UNCHANGED handlers
  /\ UNCHANGED <<exiting, env, err, pending, iface, kernel, runs>>

(* rateLimiter_bpf__open: fails with return 1, nothing to release.       *)
Open ==
  /\ phase = "open"
  /\ \/ phase' = "load" /\ UNCHANGED <<status, failed>>
     \/ Exit(1) /\ failed' = "open"
  /\ UNCHANGED <<exiting, err, pending, config, kernel, runs>>

(* .rodata is written, then rateLimiter_bpf__load; on failure goto cleanup. *)
Load ==
  /\ phase = "load"
  /\ \/ phase' = "attach" /\ UNCHANGED <<err, failed>>
     \/ \E e \in LoadErrs : err' = -e /\ phase' = "cleanup" /\ failed' = "load"
  /\ UNCHANGED <<exiting, pending, config, kernel, status, runs>>

(* attach_tc: if_nametoindex, then bpf_tc_attach on the ingress hook.    *)
(* No bpf_tc_hook_create precedes it, so the filter is added only if a   *)
(* clsact qdisc already exists; each success adds one more filter.        *)
Attach ==
  /\ phase = "attach"
  /\ CASE ~iface -> err' = -1 /\ phase' = "cleanup" /\ failed' = "attach"
                    /\ UNCHANGED filters
       [] iface /\ ~qdisc -> err' = -EINVAL /\ phase' = "cleanup"
                    /\ failed' = "attach" /\ UNCHANGED filters
       [] OTHER -> filters' = filters + 1 /\ phase' = "rb_new"
                    /\ UNCHANGED <<err, failed>>
  /\ UNCHANGED <<exiting, pending, config, qdisc, status, runs>>

(* Fault variant: the ring_buffer__new failure leaves err as it was.    *)
RingBufferNewNoErr ==
  /\ phase = "rb_new"
  /\ \/ phase' = "loop" /\ UNCHANGED <<err, failed>>
     \/ phase' = "cleanup" /\ failed' = "rb_new" /\ UNCHANGED err
  /\ UNCHANGED <<exiting, pending, config, kernel, status, runs>>

(* ring_buffer__new: on failure err = -1, goto cleanup.                  *)
RingBufferNew ==
  /\ phase = "rb_new"
  /\ \/ phase' = "loop" /\ UNCHANGED <<err, failed>>
     \/ err' = -1 /\ phase' = "cleanup" /\ failed' = "rb_new"
  /\ UNCHANGED <<exiting, pending, config, kernel, status, runs>>

(* while (!exiting): the flag is tested before every poll.               *)
LoopTest ==
  /\ phase = "loop"
  /\ phase' = IF exiting = 1 THEN "cleanup" ELSE "poll_call"
  /\ UNCHANGED <<exiting, err, failed, pending, config, kernel, status, runs>>

(* ring_buffer__poll(rb, 100) is called and enters epoll_wait.  A signal *)
(* between the test of exiting and this point does not interrupt it.     *)
PollEnter ==
  /\ phase = "poll_call"
  /\ phase' = "poll"
  /\ UNCHANGED <<exiting, err, failed, pending, config, kernel, status, runs>>

(* epoll_wait reports the ring readable; handle_event is called for each *)
(* waiting event and ring_buffer__poll returns their number.              *)
PollEvents ==
  /\ phase = "poll" /\ pending > 0
  /\ err' = pending /\ pending' = 0 /\ phase' = "loop"
  /\ UNCHANGED <<exiting, failed, config, kernel, status, runs>>

(* No event within the timeout: returns 0.                                *)
PollTimeout ==
  /\ phase = "poll" /\ pending = 0 /\ PollTimeoutMs >= 0
  /\ err' = 0 /\ phase' = "loop"
  /\ UNCHANGED <<exiting, failed, pending, config, kernel, status, runs>>

(* A poll error other than EINTR: printed, break.                        *)
PollError ==
  /\ phase = "poll"
  /\ \E e \in PollErrs : err' = -e
  /\ phase' = "cleanup" /\ failed' = "poll"
  /\ UNCHANGED <<exiting, pending, config, kernel, status, runs>>

(* Fault variant: main's return value taken as the status unreduced.    *)
CleanupUnreduced ==
  /\ phase = "cleanup"
  /\ Exit(-err)
  /\ UNCHANGED <<exiting, err, failed, pending, config, kernel, runs>>

(* cleanup: rateLimiter_bpf__destroy(skel); return -err.  The TC filter  *)
(* is not detached and the ring_buffer is not freed.                      *)
Cleanup ==
  /\ phase = "cleanup"
  /\ Exit((-err) % 256)
  /\ UNCHANGED <<exiting, err, failed, pending, config, kernel, runs>>

(* The newest filter, attached by this run, classifies first and ends    *)
(* classification with its verdict (direct action), so only this run's  *)
(* tc_ingress submits to the ring this process reads; it drops a packet  *)
(* and submits an event.  Filters of earlier runs write into rings no    *)
(* process reads.                                                         *)
KernelEvent ==
  /\ phase \in {"rb_new", "loop", "poll_call", "poll"} /\ pending < MaxEvents
  /\ pending' = pending + 1
  /\ UNCHANGED <<phase, exiting, err, failed, config, kernel, status, runs>>

(* SIGINT or SIGTERM.  Before setup() installed its handler the signal   *)
(* kills the process.  During epoll_wait the handler runs and the wait   *)
(* returns -EINTR, which main turns into err = 0 and break.  Elsewhere   *)
(* only the flag is set.                                                  *)
Signal(sig) ==
  /\ phase /= "exited"
  /\ CASE sig \notin handlers -> Exit(KILLED) /\ UNCHANGED <<exiting, err>>
       [] phase = "poll" -> exiting' = 1 /\ err' = 0 /\ phase' = "cleanup"
                            /\ UNCHANGED status
       [] OTHER -> exiting' = 1 /\ UNCHANGED <<phase, err, status>>
  /\ UNCHANGED <<failed, pending, config, kernel, runs>>

Main ==
  \/ Parse \/ Setup \/ InstallHandler \/ Open \/ Load \/ Attach
  \/ RingBufferNew \/ LoopTest \/ PollEnter \/ PollEvents \/ PollTimeout
  \/ PollError \/ Cleanup

(* The steps main() takes by itself, without an error from the kernel   *)
(* during the poll.                                                       *)
Progress == Main /\ ~PollError

Next == Main \/ KernelEvent \/ Restart \/ \E sig \in Signals : Signal(sig)

Spec == Init /\ [][Next]_vars

(* main() is an ordinary process: every step it can take it eventually   *)
(* takes; ring_buffer__poll returns within its timeout.  Signals, poll   *)
(* errors, traffic and restarts are the environment's and are not fair.  *)
FairSpec == Spec /\ WF_vars(Progress)

-----------------------------------------------------------------------------
(* Properties                                                              *)

TypeOK ==
  /\ phase \in Phases /\ exiting \in {0, 1} /\ handlers \subseteq Signals
  /\ env \in [rate : Int, burst : Int] /\ err \in Int
  /\ failed \in {"none", "parse", "setup", "open", "load", "attach", "rb_new", "poll"}
  /\ pending \in 0..MaxEvents /\ iface \in BOOLEAN /\ qdisc \in BOOLEAN
  /\ filters \in 0..MaxRuns /\ status \in {KILLED} \cup 0..255
  /\ runs \in 1..MaxRuns

(* Every run that ends on a failed step (usage error, setup, open, load, *)
(* attach, ring buffer creation, poll error) exits with a non-zero status. *)
FailureExitsNonZero ==
  phase = "exited" /\ failed /= "none" => status \notin {0, KILLED}

(* Once SIGINT or SIGTERM has set exiting, main() reaches its return:   *)
(* the poll loop never waits for the flag forever.                        *)
ShutdownTerminates == (exiting = 1) ~> (phase = "exited")

(* The spec: a clean shutdown (signal, no failure) exits with status 0.  *)
CleanShutdownExitsZero ==
  phase = "exited" /\ failed = "none" => status \in {0, KILLED}

(* The spec: after the process has exited no ingress binding of it is   *)
(* left on the interface.                                                 *)
NoFilterLeftAfterExit == phase = "exited" => filters = 0

(* The spec: attaching fails only for an interface that does not exist   *)
(* (or a conflicting attachment, which a fresh interface cannot have).   *)
AttachFailsOnlyForMissingIface ==
  phase = "exited" /\ failed = "attach" /\ filters = 0 => ~iface

=============================================================================
