------------------------------- MODULE Polling -------------------------------
(***************************************************************************)
(* xfinity_polling_config (polling/xfinity_polling_config.cpp): a process  *)
(* that fetches the configuration document over and over and applies it.   *)
(* Starting up it kills the instance named in its lock file.  Instance     *)
(* Main is followed through XPC_do_polling; of the other ones only the     *)
(* lock protocol and the exit are here.                                    *)
(*                                                                         *)
(* The clock is not modelled: that the polling interval has passed, or a   *)
(* pause before a retry, is a step of its own.  The number of retries and  *)
(* the sequence number of a request are headers for the server and are not *)
(* here.                                                                   *)
(***************************************************************************)
EXTENDS PollingConfig

CONSTANTS
  Instances, Main,      \* processes that are started, and the one looked at
  Docs,                 \* documents the server may send
  NotOk,                \* a response that is not 200 OK
  Broken,               \* sets of calls that may fail while one is applied
  RetryAttributes,      \* [min, max]: the retry intervals of the environment, 0: not set
  Initial,              \* the settings before
  XPC_MAX_ERROR_COUNT,
  None                  \* no lock file, no process, no document

ASSUME MainAssumption == Main \in Instances
ASSUME NoneAssumption == None \notin Instances \cup Docs \cup [by : Instances, pid : Instances \cup {None}]
ASSUME SettingsAssumption ==
  /\ AreSettings(Initial) /\ ~Initial.chg /\ Initial.broken = {}
  /\ Broken \subseteq SUBSET Breakable /\ \A d \in Docs : IsDocument(d)
ASSUME RetryAssumption == RetryAttributes \subseteq [min : Nat, max : Nat] /\ XPC_MAX_ERROR_COUNT \in Nat

DEFAULT_MIN_INTERVAL == 1
DEFAULT_MAX_INTERVAL == 20
DEFAULT_RETRY_FACTOR == 2

VARIABLES
  lock,                \* the lock file: who made it, and the pid in it
  lpc, tries,          \* of each instance: where it is, attempts at the lock
  term_flag,           \* of each instance: SIGTERM has come
  pc,                  \* of Main: where XPC_do_polling is
  forced_polling,      \* SIGUSR1 has come
  waitingInterval, minInterval, maxInterval, defaultInterval,
  error_count,         \* consecutive connection errors
  started, elapsed,    \* start_polling_time is set; the interval has passed since
  info,                \* CloudRecorderInfo: interval, url and auth as last read
  receiveData,         \* "null", "held", or "dangling": freed but not reset
  content,             \* what it holds, or held
  conf,                \* the settings on flash and in usr_config
  fresh,               \* ghost: the content was received since the last poll began
  last,                \* ghost: the document last applied, if nothing failed since
  recent,              \* ghost: how many of the last requests, the limit at most, could not connect
  reacted              \* ghost: the last application made the settings work

locking == <<lock, lpc, tries>>
backoff == <<waitingInterval, minInterval, maxInterval, defaultInterval>>
errors  == <<error_count, recent>>
timing  == <<started, elapsed>>
data    == <<receiveData, content, fresh>>
stored  == <<conf, last, reacted>>
vars    == <<locking, term_flag, pc, forced_polling, backoff, errors, timing,
             info, data, stored>>

OrDefault(n, default) == IF n = 0 THEN default ELSE n

\* Contradictory limits fall back to the default ones, the first pause does not.
getCloudRecorderRetryAttribute(r) ==
  LET low == OrDefault(r.min, DEFAULT_MIN_INTERVAL)
      high == OrDefault(r.max, DEFAULT_MAX_INTERVAL)
  IN  /\ waitingInterval = low /\ defaultInterval = low
      /\ minInterval = (IF high < low THEN DEFAULT_MIN_INTERVAL ELSE low)
      /\ maxInterval = (IF high < low THEN DEFAULT_MAX_INTERVAL ELSE high)

CloudRecorderInfo(c) == [interval |-> c.polling_interval, url |-> c.polling_url,
                         auth |-> c.polling_auth]
NoInfo == [interval |-> 0, url |-> NoUrl, auth |-> ""]

Init ==
  /\ lock = None
  /\ lpc = [p \in Instances |-> "off"] /\ tries = [p \in Instances |-> 0]
  /\ term_flag = [p \in Instances |-> FALSE]
  /\ pc = "init" /\ forced_polling = FALSE
  /\ \E r \in RetryAttributes : getCloudRecorderRetryAttribute(r)
  /\ error_count = 0 /\ recent = 0
  /\ started = FALSE /\ elapsed = FALSE /\ info = NoInfo
  /\ receiveData = "null" /\ content = None /\ fresh = FALSE
  /\ conf = Initial /\ last = None /\ reacted = FALSE

-----------------------------------------------------------------------------
(* XPC_process_control: two attempts at XPC_check_filelock.                *)

\* Everything of Main's loop.
loop == <<pc, forced_polling, backoff, errors, timing, info, data, stored>>

LockAt(p, from, to) == lpc[p] = from /\ lpc' = [lpc EXCEPT ![p] = to]

\* Started, or trying again: open(O_CREAT | O_EXCL)
L_Create(p) ==
  /\ lock = None
  /\ LockAt(p, "off", "write") \/ LockAt(p, "create", "write")
  /\ lock' = [by |-> p, pid |-> None]
  /\ UNCHANGED <<tries, term_flag, loop>>

L_Exists(p) ==
  /\ lock # None
  /\ LockAt(p, "off", "read") \/ LockAt(p, "create", "read")
  /\ UNCHANGED <<lock, tries, term_flag, loop>>

\* Everything of Main's loop but where it is.
rest == <<forced_polling, backoff, errors, timing, info, data, stored>>

\* A signal ends a sleep.
Woken == pc' = IF pc = "waiting" THEN "top" ELSE pc

\* An empty file names nobody.
Signalled_EmptyIsNobody(p, q) == lpc[q] # "off" /\ lock # None /\ lock.pid = q

\* kill(pid, SIGTERM); in an empty file pid stays -1, and that is everybody.
Signalled(p, q) == lpc[q] # "off" /\ lock # None /\ (lock.pid = q \/ (lock.pid = None /\ q # p))

L_Kill(p) ==
  /\ LockAt(p, "read", "unlink")
  /\ term_flag' = [q \in Instances |-> term_flag[q] \/ Signalled(p, q)]
  /\ IF Signalled(p, Main) THEN Woken ELSE UNCHANGED pc
  /\ UNCHANGED <<lock, tries, rest>>

\* After sleep(1), and a second SIGTERM to whoever is still alive.
L_Unlink(p) ==
  /\ LockAt(p, "unlink", IF tries[p] = 0 THEN "create" ELSE "exit")
  /\ lock' = None
  /\ tries' = [tries EXCEPT ![p] = @ + 1]
  /\ UNCHANGED <<term_flag, loop>>

\* The pid goes to the file p made, whether or not it still has its name.
L_Write(p) ==
  /\ LockAt(p, "write", "running")
  /\ lock' = IF lock # None /\ lock.by = p THEN [lock EXCEPT !.pid = p] ELSE lock
  /\ UNCHANGED <<tries, term_flag, loop>>

\* XPC_exit unlinks the lock file, whoever made it.
XPC_exit(p) ==
  /\ LockAt(p, "exit", "gone")
  /\ lock' = None
  /\ UNCHANGED <<tries, term_flag, loop>>

\* Another instance stops polling on SIGTERM.
O_Stop(p) ==
  /\ p # Main /\ term_flag[p]
  /\ LockAt(p, "running", "exit")
  /\ UNCHANGED <<lock, tries, term_flag, loop>>

-----------------------------------------------------------------------------
(* SIGUSR1 and time; SIGTERM is what starting another instance sends. *)

SigUsr1 ==
  /\ lpc[Main] = "running" /\ pc \notin {"done", "crashed"}
  /\ forced_polling' = TRUE /\ Woken
  /\ UNCHANGED <<locking, term_flag, backoff, errors, timing, info, data, stored>>

TimePasses ==
  /\ started /\ ~elapsed
  /\ elapsed' = TRUE
  /\ UNCHANGED <<locking, term_flag, pc, forced_polling, backoff, errors, started,
                 info, data, stored>>

-----------------------------------------------------------------------------
(* XPC_do_polling *)

At(from, to) == lpc[Main] = "running" /\ pc = from /\ pc' = to

\* Without a configuration XPC_exit removes the lock file, and polling goes on.
P_ReadInfo(ok) ==
  /\ At("init", "top")
  /\ info' = IF ok THEN CloudRecorderInfo(conf) ELSE NoInfo
  /\ lock' = IF ok THEN lock ELSE None
  /\ UNCHANGED <<lpc, tries, term_flag, forced_polling, backoff, errors, timing,
                 data, stored>>

P_Leave ==
  /\ term_flag[Main]
  /\ At("top", "done")
  /\ lpc' = [lpc EXCEPT ![Main] = "exit"]
  /\ UNCHANGED <<lock, tries, term_flag, forced_polling, backoff, errors, timing,
                 info, data, stored>>

\* polling_interval + start_polling_time > current_time
NotYet == started /\ ~elapsed /\ info.interval > 0

\* Without credentials the default URL is polled.
PolledUrl == IF info.auth # "" THEN info.url ELSE DefaultUrl

\* Either wait may find the time just come, and return at once.
P_TooEarly ==
  /\ ~term_flag[Main]
  /\ (~forced_polling /\ NotYet) \/ IsHttp(PolledUrl)
  /\ At("top", IF NotYet THEN "waiting" ELSE "top")
  /\ UNCHANGED <<locking, term_flag, forced_polling, backoff, errors, timing, info,
                 data, stored>>

P_WaitOver ==
  /\ elapsed
  /\ At("waiting", "top")
  /\ UNCHANGED <<locking, term_flag, forced_polling, backoff, errors, timing, info,
                 data, stored>>

P_Begin ==
  /\ ~term_flag[Main]
  /\ forced_polling \/ ~NotYet
  /\ ~IsHttp(PolledUrl)
  /\ At("top", "try")
  /\ started' = TRUE /\ elapsed' = FALSE /\ fresh' = FALSE
  /\ UNCHANGED <<locking, term_flag, forced_polling, backoff, errors, info,
                 receiveData, content, stored>>

MayTry == waitingInterval < info.interval /\ ~term_flag[Main]

UseRecovery == error_count >= XPC_MAX_ERROR_COUNT

\* The count goes on beyond the limit.
P_Request_NoCap ==
  /\ MayTry
  /\ At("try", "get")
  /\ UNCHANGED <<locking, term_flag, forced_polling, backoff, errors, timing, info, data, stored>>

\* At the limit the count is set to it, so the next error is one more.
P_Request ==
  /\ MayTry
  /\ At("try", "get")
  /\ error_count' = IF UseRecovery THEN XPC_MAX_ERROR_COUNT ELSE error_count
  /\ UNCHANGED <<locking, term_flag, forced_polling, backoff, recent, timing, info,
                 data, stored>>

\* It is left, too, when the server cannot be reached.
P_GiveUp_AtLimit ==
  /\ ~MayTry \/ UseRecovery
  /\ At("try", "parse")
  /\ UNCHANGED <<locking, term_flag, forced_polling, backoff, errors, timing, info,
                 data, stored>>

\* The inner loop is left, or was never entered, without a document.
P_GiveUp ==
  /\ ~MayTry
  /\ At("try", "parse")
  /\ UNCHANGED <<locking, term_flag, forced_polling, backoff, errors, timing, info,
                 data, stored>>

\* ghost
Recall(unreachable) ==
  recent' = IF ~unreachable THEN 0 ELSE IF recent < XPC_MAX_ERROR_COUNT THEN recent + 1 ELSE recent

P_Received(d) ==
  /\ At("get", "parse")
  /\ receiveData' = "held" /\ content' = d /\ fresh' = TRUE
  /\ forced_polling' = FALSE
  /\ waitingInterval' = minInterval
  /\ error_count' = 0 /\ Recall(FALSE)
  /\ UNCHANGED <<locking, term_flag, minInterval, maxInterval, defaultInterval, timing, info, stored>>

\* The errors are counted, but not only consecutive ones.
P_Failed_NoReset(unreachable) ==
  /\ At("get", "backoff")
  /\ error_count' = IF unreachable THEN error_count + 1 ELSE error_count
  /\ Recall(unreachable)
  /\ UNCHANGED <<locking, term_flag, forced_polling, backoff, timing, info, data, stored>>

\* curl could not resolve or connect, or failed otherwise.
P_Failed(unreachable) ==
  /\ At("get", "backoff")
  /\ error_count' = IF unreachable THEN error_count + 1 ELSE 0
  /\ Recall(unreachable)
  /\ UNCHANGED <<locking, term_flag, forced_polling, backoff, timing, info, data, stored>>

\* The pause grows until it is beyond the limit and stays there.
retryAtExpRate_NoLimit ==
  /\ At("backoff", "try")
  /\ LET next == waitingInterval * DEFAULT_RETRY_FACTOR
     IN  waitingInterval' = IF waitingInterval > info.interval THEN waitingInterval ELSE next
  /\ UNCHANGED <<locking, term_flag, forced_polling, minInterval, maxInterval, defaultInterval,
                 errors, timing, info, data, stored>>

\* After the sleep, which a signal cuts short.
retryAtExpRate ==
  /\ At("backoff", "try")
  /\ LET next == waitingInterval * DEFAULT_RETRY_FACTOR
     IN  waitingInterval' = IF next > maxInterval THEN defaultInterval ELSE next
  /\ UNCHANGED <<locking, term_flag, forced_polling, minInterval, maxInterval, defaultInterval,
                 errors, timing, info, data, stored>>

-----------------------------------------------------------------------------
(* The response.  freeResource resets only its own copy of the pointer: a  *)
(* round without a document finds the freed one of an earlier round, which *)
(* may still be there or not, and the free of it may end the process.      *)

Crash ==
  /\ pc' = "crashed"
  /\ lpc' = [lpc EXCEPT ![Main] = "gone"]
  /\ UNCHANGED <<lock, tries, term_flag, forced_polling, backoff, errors, timing,
                 info, data, stored>>

freeResource == receiveData' = "dangling" /\ UNCHANGED <<content, fresh>>

Failure(to) ==
  /\ pc' = to
  /\ UNCHANGED <<locking, term_flag, forced_polling, backoff, errors, timing, info>>

\* XPC_wait_polling_interval returns at once when the time has come.
AfterWait == IF NotYet THEN "waiting" ELSE "top"

\* XPC_parse_response
P_Parse ==
  /\ lpc[Main] = "running" /\ pc = "parse"
  /\ \E c \in (IF receiveData = "dangling" THEN {content, NotOk} ELSE {content}) :
       IF receiveData # "null" /\ c = NotOk
         THEN Failure(AfterWait) /\ freeResource /\ UNCHANGED stored
         ELSE /\ pc' = "apply"
              /\ UNCHANGED <<locking, term_flag, forced_polling, backoff, errors,
                             timing, info, data, stored>>

\* A second free of the same response.
P_DoubleFree ==
  /\ lpc[Main] = "running" /\ pc \in {"parse", "apply"} /\ receiveData = "dangling"
  /\ Crash

\* XPC_apply_config copies xml_content, and there is none.
P_ApplyNothing ==
  /\ lpc[Main] = "running" /\ pc = "apply" /\ receiveData = "null"
  /\ Crash

\* It is no XML, or the settings cannot be read: nothing is changed.
P_ApplyFails ==
  /\ lpc[Main] = "running" /\ pc = "apply" /\ receiveData # "null"
  /\ Failure(AfterWait) /\ freeResource /\ UNCHANGED stored

\* SaveAllConf fails: what went to usr_config stays there.
P_SaveFails ==
  /\ lpc[Main] = "running" /\ pc = "apply" /\ receiveData # "null" /\ content \in Docs
  /\ \E broken \in Broken :
       LET c == XPC_apply_config(conf, content, broken)
       IN  conf' = [conf EXCEPT !.md_mode = c.md_mode, !.event_quiet_time = c.event_quiet_time]
  /\ last' = None /\ reacted' = FALSE
  /\ Failure(AfterWait) /\ freeResource

\* AllFuncReact is called when something was marked changed.
P_Apply ==
  /\ receiveData # "null" /\ content \in Docs
  /\ At("apply", "reread")
  /\ \E broken \in Broken :
       LET c == XPC_apply_config(conf, content, broken)
       IN  /\ conf' = [c EXCEPT !.chg = FALSE, !.broken = {}]
           /\ reacted' = c.chg
           /\ last' = IF broken = {} THEN content ELSE None
  /\ freeResource
  /\ UNCHANGED <<locking, term_flag, forced_polling, backoff, errors, timing, info>>

\* The interval may be another one: it has passed or not.
P_Reread ==
  /\ At("reread", "top")
  /\ info' = CloudRecorderInfo(conf)
  /\ elapsed' \in (IF info'.interval = info.interval THEN {elapsed} ELSE BOOLEAN)
  /\ reacted' = FALSE
  /\ UNCHANGED <<locking, term_flag, forced_polling, backoff, errors, started, data, conf, last>>

P_RereadFails ==
  /\ At("reread", "done")
  /\ lpc' = [lpc EXCEPT ![Main] = "exit"]
  /\ UNCHANGED <<lock, tries, term_flag, forced_polling, backoff, errors, timing,
                 info, data, stored>>

-----------------------------------------------------------------------------
Lock(p) ==
  \/ L_Create(p) \/ L_Exists(p) \/ L_Kill(p) \/ L_Unlink(p) \/ L_Write(p)
  \/ XPC_exit(p) \/ O_Stop(p)

Loop ==
  \/ \E ok \in BOOLEAN : P_ReadInfo(ok)
  \/ P_Leave \/ P_TooEarly \/ P_WaitOver \/ P_Begin \/ P_Request \/ P_GiveUp
  \/ \E d \in Docs \cup {NotOk} : P_Received(d)
  \/ \E unreachable \in BOOLEAN : P_Failed(unreachable)
  \/ retryAtExpRate \/ P_Parse \/ P_DoubleFree \/ P_ApplyNothing \/ P_ApplyFails
  \/ P_SaveFails \/ P_Apply \/ P_Reread \/ P_RereadFails

Next == (\E p \in Instances : Lock(p)) \/ Loop \/ SigUsr1 \/ TimePasses

Spec == Init /\ [][Next]_vars

\* Main runs, time passes, and a request is answered or times out.  Nothing is
\* assumed of the server, nor of anybody starting another instance.
Fairness == WF_vars(Loop) /\ WF_vars(TimePasses) /\ WF_vars(Lock(Main))
FairSpec == Spec /\ Fairness

-----------------------------------------------------------------------------
TypeOK ==
  /\ lock \in {None} \cup [by : Instances, pid : Instances \cup {None}]
  /\ lpc \in [Instances -> {"off", "create", "read", "unlink", "write", "running", "exit", "gone"}]
  /\ tries \in [Instances -> 0..2] /\ term_flag \in [Instances -> BOOLEAN]
  /\ pc \in {"init", "top", "waiting", "try", "get", "backoff", "parse", "apply", "reread",
              "done", "crashed"}
  /\ forced_polling \in BOOLEAN
  /\ waitingInterval \in Nat \ {0} /\ minInterval <= maxInterval
  /\ error_count \in 0 .. XPC_MAX_ERROR_COUNT + 1
  /\ started \in BOOLEAN /\ elapsed \in BOOLEAN /\ fresh \in BOOLEAN /\ reacted \in BOOLEAN
  /\ receiveData \in {"null", "held", "dangling"}
  /\ content \in Docs \cup {NotOk, None} /\ last \in Docs \cup {None}
  /\ AreSettings(conf) /\ ~conf.chg /\ conf.broken = {}

\* Main could not read its configuration; it goes on to use a document it has
\* not got.
Unconfigured(p) == p = Main /\ pc # "init" /\ info = NoInfo

\* Only these two were ever started.
OnlyTwo(p, q) == \A r \in Instances \ {p, q} : lpc[r] = "off"

\* XPC_check_filelock: however two instances overlap while they start and end,
\* the one that came first has been told to go once the second one runs.  With
\* a third one the code does not promise it: the exit of the first unlinks the
\* lock of the second, and the third finds none.
OneInstance ==
  \A p, q \in Instances :
    p # q /\ OnlyTwo(p, q) /\ lpc[p] = "running" /\ lpc[q] = "running"
      => term_flag[p] \/ term_flag[q] \/ Unconfigured(p) \/ Unconfigured(q)

LongestPause == IF maxInterval < defaultInterval THEN defaultInterval ELSE maxInterval

\* XPC_do_polling: what is applied was received in the same round -- not left
\* over, freed, from an earlier one -- as long as polls are further apart than
\* retries and nobody has sent SIGTERM.
AppliesReceived ==
  pc \in {"apply", "crashed"} => fresh \/ term_flag[Main] \/ info.interval <= LongestPause

\* "if we get curl code 6 or 7 consecutively, then use recovery polling url":
\* exactly if the last XPC_MAX_ERROR_COUNT requests could not connect, whatever
\* rounds they belong to.
RecoveryWhenUnreachable ==
  pc = "get" => (UseRecovery <=> recent = XPC_MAX_ERROR_COUNT)

\* Without the bit rates, which an uninitialized variable may go to.
Settings(c) == [f \in DOMAIN c \ {"abr", "chg"} |-> c[f]]

\* Motion detection is switched by a <motion> that has attributes.
SwitchesMotion(root) ==
  \E t \in Children(root) :
    t.name = "detection" /\ \E u \in Children(t) : u.name = "motion" /\ ~NoAttributes(u)

\* XPC_apply_config settles: after a document was applied without a failure, it
\* would change nothing if it came again -- no second event entry, no setting
\* that two of its tags fight over -- and motion detection is on in usr_config
\* exactly if it is on in All_Conf once a document has switched it.
Settled ==
  pc = "reread" /\ last # None =>
    /\ Settings(XPC_apply_config(conf, last, {})) = Settings(conf)
    /\ SwitchesMotion(last) => conf.md_mode = conf.mot

\* XPC_save_event_entry keeps the overall switch of Comcast's cameras on exactly
\* while an event is enabled, be it an event of the camera's owner.
TriggerFollowsEvents == ComcastPartner => conf.trig = AnyEnabled(conf.items)

\* XPC_apply_config: new settings are not only saved but made to work.
ChangesReact ==
  [][\A f \in DOMAIN conf \ {"md_mode", "event_quiet_time"} :
       conf'[f] # conf[f] => reacted']_vars

\* XPC_do_polling polls for ever, whatever the server does, unless it is told to
\* stop, loses its settings or is told to poll as often as it may pause.
KeepsPolling ==
  []<>(pc = "get") \/ <>(lpc[Main] = "gone")
    \/ <>(pc # "init" /\ info.interval <= LongestPause)
=============================================================================
