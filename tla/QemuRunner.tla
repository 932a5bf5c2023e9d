------------------------------ MODULE QemuRunner ------------------------------
(***************************************************************************)
(* oeqa.utils.qemurunner: how the runtime tests start a guest with runqemu,*)
(* talk to its serial console and stop it.  Four actors: the main thread,  *)
(* its SIGCHLD handler, which runs on the main thread between two of its    *)
(* steps, the logging thread with its event loop, and the two processes    *)
(* runqemu and qemu, which fail when they like.                            *)
(*                                                                         *)
(* Timeouts may elapse at any time.  Two serial ports, as by default.      *)
(* Launches are numbered: a restart() that finds runqemu over leaves the    *)
(* guest and the logging thread of the launch before as they are.           *)
(***************************************************************************)
EXTENDS Naturals, FiniteSets

CONSTANTS MaxCommands,  \* bound: commands sent over the serial console
          MaxFaults,    \* bound: failures of runqemu and qemu
          MaxRestarts   \* bound: launches after the first

ASSUME QemuAssumption == MaxCommands \in Nat /\ MaxFaults \in Nat /\ MaxRestarts \in Nat

VARIABLES
  qPc,        \* the main thread
  after,      \* where it goes on after stop() or stop_thread()
  scope,      \* "all" for stop(), "thread" for stop_thread()
  handler,    \* handleSIGCHLD is installed
  orig,       \* and is the origchldhandler that stop() puts back
  sigchld,    \* a SIGCHLD is pending
  exited,     \* runqemu_exited
  launches,   \* launches so far: the number of the last one
  runqemu, qemu,      \* its processes: none, run, and err, ok or gone
  pidfile,    \* the pid file is written
  qemupid,    \* the launch whose guest's pid is known, 0 for none
  olds,       \* earlier launches whose guest runs
  serversock, \* server_socket: none, listen, or serial once accepted
  logger,     \* the logging thread: none, begin, loop, closing, dead
  logOf,      \* the launch it was started for
  orphans,    \* earlier launches whose thread lives and is nobody's
  running,    \* its running flag
  wakeup,     \* its pipe: none, empty, stop, closed
  connected,  \* connection_established
  serialsock, \* the logging thread knows the serial socket
  registered, \* and polls it
  lock,       \* serial_lock: free or main (the logger holds it in one step)
  command,    \* commands sent so far; the last one is the current one
  owed,       \* commands the guest has not answered
  serial,     \* data waiting at the serial socket: answers, 0 for noise
  reply,      \* history: whose answer the last command got
  late,       \* history: some command timed out
  stolen,     \* history: the logger took an answer main was waiting for
  seen,       \* history: launches whose guest's pid was found
  faults

main_   == <<qPc, after, scope>>
procs   == <<launches, runqemu, qemu, pidfile, olds, sigchld>>
know    == <<handler, orig, exited, qemupid, serversock>>
thread  == <<logger, logOf, orphans, running, wakeup, connected, serialsock,
             registered>>
console == <<lock, command, owed, serial>>
past    == <<reply, late, stolen, seen>>
bounds  == <<faults>>
qemuVars == <<main_, procs, know, thread, console, past, bounds>>

StopSteps == {"s_thread", "s_write", "s_join", "s_qemu", "s_group", "s_close"}
Phases == {"waitpid", "qmp", "console", "boot", "serial", "up"}

QemuInit ==
  /\ qPc = "idle" /\ after = "down" /\ scope = "all"
  /\ handler = FALSE /\ orig = FALSE /\ sigchld = FALSE /\ exited = FALSE
  /\ launches = 0 /\ runqemu = "none" /\ qemu = "none" /\ olds = {}
  /\ pidfile = FALSE /\ qemupid = 0 /\ serversock = "none"
  /\ logger = "none" /\ logOf = 0 /\ orphans = {} /\ running = FALSE /\ wakeup = "none"
  /\ connected = FALSE /\ serialsock = FALSE /\ registered = FALSE
  /\ lock = "free" /\ command = 0 /\ owed = {} /\ serial = {}
  /\ reply = "none" /\ late = FALSE /\ stolen = FALSE
  /\ seen = {} /\ faults = 0

(* stop(), or stop_thread(), begins; the main thread then goes on at next.  *)
Stopping(sc, next) == qPc' = "s_thread" /\ scope' = sc /\ after' = next
Goto(next) == qPc' = next /\ UNCHANGED <<after, scope>>

(* poll() of the Popen object, and is_alive(). *)
Over == runqemu \in {"ok", "err"}
IsUp == runqemu = "run" /\ ~exited /\ pidfile /\ qemu = "run"
-----------------------------------------------------------------------------
LaunchForgets ==
  /\ qPc \in {"idle", "again"} /\ launches <= MaxRestarts
  /\ Goto("waitpid")
  /\ launches' = launches + 1
  /\ handler' = TRUE /\ orig' = handler /\ sigchld' = (sigchld /\ handler)
  /\ runqemu' = "run" /\ qemu' = "none" /\ pidfile' = FALSE
  /\ olds' = IF qemu = "run" THEN olds \cup {launches} ELSE olds
  /\ qemupid' = 0 /\ serversock' = "listen" /\ owed' = {} /\ serial' = {}
  /\ UNCHANGED <<exited, lock, command, thread, past, bounds>>

(* launch(): new sockets, handler, runqemu; the pid file goes.  A guest that *)
(* nobody stopped runs on, and qemupid still names it.                      *)
Launch ==
  /\ qPc \in {"idle", "again"} /\ launches <= MaxRestarts
  /\ Goto("waitpid")
  /\ launches' = launches + 1
  /\ handler' = TRUE /\ orig' = handler /\ sigchld' = (sigchld /\ handler)
  /\ runqemu' = "run" /\ qemu' = "none" /\ pidfile' = FALSE
  /\ olds' = IF qemu = "run" THEN olds \cup {launches} ELSE olds
  /\ serversock' = "listen" /\ owed' = {} /\ serial' = {}
  /\ UNCHANGED <<exited, qemupid, lock, command, thread, past, bounds>>

(* The loop that waits for the pid of qemu. *)
WaitPid ==
  /\ qPc = "waitpid"
  /\ \/ /\ IsUp
        /\ qemupid' = launches /\ seen' = seen \cup {launches}
        /\ Goto("qmp")
     \/ /\ runqemu = "err"
        /\ IF exited THEN Goto("failed") ELSE Stopping("all", "failed")
        /\ UNCHANGED <<qemupid, seen>>
     \/ /\ ~IsUp                                    \* runqemutime is over
        /\ Stopping("all", "failed")
        /\ UNCHANGED <<qemupid, seen>>
  /\ UNCHANGED <<procs, handler, orig, exited, serversock, thread, console, reply,
                 late, stolen, bounds>>

(* The monitor is connected and releases qemu, the IP address is found, and *)
(* the logging thread starts, whatever the one before it does; or start()   *)
(* returns False on the way, with or without a stop().                      *)
Monitor ==
  /\ qPc = "qmp"
  /\ \/ /\ qemu = "run"
        /\ Goto("console")
        /\ orphans' = IF logger \in {"none", "dead"} THEN orphans
                      ELSE orphans \cup {logOf}
        /\ logger' = "begin" /\ logOf' = launches /\ running' = FALSE /\ wakeup' = "none"
        /\ connected' = FALSE /\ serialsock' = FALSE /\ registered' = FALSE
     \/ /\ Goto("failed") \/ Stopping("all", "failed")
        /\ UNCHANGED thread
  /\ UNCHANGED <<procs, know, console, past, bounds>>

(* connection_established.wait(boottime) *)
Console ==
  /\ qPc = "console"
  /\ \/ connected /\ Goto("boot")
     \/ ~connected /\ Stopping("thread", "failed")
  /\ UNCHANGED <<procs, know, thread, console, past, bounds>>

(* The login banner, or boottime is over or the connection is.  Then the    *)
(* logging thread gets the socket, under the lock.                          *)
Boot ==
  /\ qPc = "boot"
  /\ \/ /\ qemu = "run" /\ lock = "free"
        /\ serversock' = "serial" /\ serialsock' = TRUE
        /\ Goto("up")
     \/ /\ Stopping("all", "failed")
        /\ UNCHANGED <<serversock, serialsock>>
  /\ UNCHANGED <<procs, handler, orig, exited, qemupid, logger, logOf, orphans,
                 running, wakeup, connected, registered, console, past, bounds>>

(* run_serial, for the login and for the tests: take the lock and send.     *)
Send ==
  /\ qPc = "up" /\ serversock = "serial"
  /\ command < MaxCommands
  /\ lock = "free" /\ lock' = "main"
  /\ command' = command + 1
  /\ owed' = IF qemu = "run" THEN owed \cup {command + 1} ELSE owed
  /\ Goto("serial")
  /\ UNCHANGED <<serial, procs, know, thread, past, bounds>>

(* select() says there is data: recv() takes what is there.  A prompt ends  *)
(* the wait, noise does not.                                                *)
Read ==
  /\ qPc = "serial" /\ serial # {}
  /\ serial' = {}
  /\ IF serial = {0}
     THEN UNCHANGED <<main_, lock, reply>>
     ELSE /\ Goto("up") /\ lock' = "free"
          /\ reply' = IF command \in serial THEN "own" ELSE "other"
  /\ UNCHANGED <<command, owed, procs, know, thread, late, stolen, seen, bounds>>

(* The command times out, or the connection is closed. *)
GiveUp ==
  /\ qPc = "serial"
  /\ Goto("up") /\ lock' = "free"
  /\ late' = TRUE /\ reply' = "none"
  /\ UNCHANGED <<command, owed, serial, procs, know, thread, stolen, seen, bounds>>

(* The end of the tests: stop(), or restart(), which only stops a runqemu   *)
(* that is live.                                                            *)
Finish ==
  /\ qPc = "up"
  /\ \/ Stopping("all", "down")
     \/ /\ launches <= MaxRestarts
        /\ IF Over THEN Goto("again") ELSE Stopping("all", "again")
  /\ UNCHANGED <<procs, know, thread, console, past, bounds>>

(* start() returned False: the target stops the runner. *)
CallerStops ==
  /\ qPc = "failed"
  /\ Stopping("all", "down")
  /\ UNCHANGED <<procs, know, thread, console, past, bounds>>

(* handleSIGCHLD: a runqemu that exited with an error is stopped, in the    *)
(* middle of what the main thread does, whatever lock it holds.  poll() may *)
(* miss the exit when the signal came during another poll() or the wait of  *)
(* communicate().  When another stop() is what it interrupts, that one then *)
(* writes to a closed pipe, or communicate() meets the other's and raises.   *)
HandleSIGCHLD ==
  /\ sigchld /\ handler
  /\ sigchld' = FALSE
  /\ \/ /\ runqemu = "err"
        /\ \/ qPc \in Phases \cup {"again", "failed", "down"} /\ Stopping("all", qPc)
           \/ qPc \in StopSteps /\ Stopping("all", after)
           \/ qPc = "s_write" /\ Stopping("all", "raised")
           \/ qPc = "s_close" /\ Goto("raised")
     \/ /\ runqemu # "err" \/ qPc \in {"waitpid", "qmp", "up", "s_close"}
        /\ UNCHANGED main_
  /\ UNCHANGED <<launches, runqemu, qemu, pidfile, olds, know, thread, console, past,
                 bounds>>
-----------------------------------------------------------------------------
(* stop(): the handler goes first, if another one was there before it;      *)
(* stop_thread() tests the thread.                                          *)
StopThread ==
  /\ qPc = "s_thread"
  /\ handler' = IF scope = "thread" THEN handler ELSE orig
  /\ qPc' = IF logger \in {"none", "dead"} THEN
               IF scope = "thread" THEN after ELSE "s_qemu"
            ELSE IF running THEN "s_write" ELSE "s_join"
  /\ UNCHANGED <<after, scope, procs, orig, exited, qemupid, serversock, thread,
                 console, past, bounds>>

StopWriteBug ==
  /\ qPc = "s_write"
  /\ Goto("s_join") /\ UNCHANGED wakeup
  /\ UNCHANGED <<procs, know, logger, logOf, orphans, running, connected,
                 serialsock, registered, console, past, bounds>>

(* The message through the pipe, which the thread may just have closed:     *)
(* then OSError leaves stop().                                              *)
StopWrite ==
  /\ qPc = "s_write"
  /\ IF wakeup = "closed"
     THEN Goto("raised") /\ UNCHANGED wakeup
     ELSE Goto("s_join") /\ wakeup' = "stop"
  /\ UNCHANGED <<procs, know, logger, logOf, orphans, running, connected,
                 serialsock, registered, console, past, bounds>>

StopJoin ==
  /\ qPc = "s_join"
  /\ logger = "dead"
  /\ qPc' = IF scope = "thread" THEN after ELSE "s_qemu"
  /\ UNCHANGED <<after, scope, procs, know, thread, console, past, bounds>>

(* stop_qemu_system: the guest whose pid is known, of whichever launch. *)
StopQemu ==
  /\ qPc = "s_qemu"
  /\ qemu' = IF qemupid = launches /\ qemu = "run" THEN "gone" ELSE qemu
  /\ olds' = olds \ {qemupid}
  /\ Goto("s_group")
  /\ UNCHANGED <<launches, runqemu, pidfile, sigchld, know, thread, console, past,
                 bounds>>

StopGroupBug ==
  /\ qPc = "s_group"
  /\ Goto("s_close")
  /\ exited' = (exited \/ runqemu # "none")
  /\ UNCHANGED <<procs, handler, orig, qemupid, serversock, thread, console, past,
                 bounds>>

(* The process group gets SIGTERM if runqemu has not been waited for.       *)
(* communicate() then waits for the end of the output, which a qemu that    *)
(* has lost its runqemu keeps open; after the timeout getpgid() fails.      *)
StopGroup ==
  /\ qPc = "s_group"
  /\ runqemu' = IF runqemu = "run" THEN "err" ELSE runqemu
  /\ qemu' = IF runqemu = "run" /\ qemu = "run" THEN "gone" ELSE qemu
  /\ sigchld' = (sigchld \/ runqemu = "run")
  /\ IF qemu' = "run" THEN Goto("raised") /\ UNCHANGED exited
     ELSE Goto("s_close") /\ exited' = (exited \/ runqemu # "none")
  /\ UNCHANGED <<launches, pidfile, olds, handler, orig, qemupid, serversock, thread,
                 console, past, bounds>>

(* Sockets and pid file go.  A start() the handler interrupted fails; a     *)
(* run_serial it interrupted raises, which releases the lock.               *)
StopClose ==
  /\ qPc = "s_close"
  /\ serversock' = "none" /\ qemupid' = 0 /\ pidfile' = FALSE
  /\ qPc' = CASE after \in {"serial", "up"} -> "up"
              [] after \in Phases \ {"serial", "up"} -> "failed"
              [] OTHER -> after
  /\ lock' = "free"
  /\ UNCHANGED <<after, scope, launches, runqemu, qemu, olds, sigchld, handler, orig,
                 exited, thread, command, owed, serial, past, bounds>>
-----------------------------------------------------------------------------
(* The logging thread: run() makes the pipe, eventloop() sets running.      *)
LogBegin ==
  /\ logger = "begin"
  /\ IF wakeup = "none"
     THEN wakeup' = "empty" /\ UNCHANGED <<logger, running>>
     ELSE logger' = "loop" /\ running' = TRUE /\ UNCHANGED wakeup
  /\ UNCHANGED <<main_, procs, know, logOf, orphans, connected, serialsock, registered,
                 console, past, bounds>>

(* Guest and runqemu hang up, or the message in the pipe. *)
GuestGone == IF logOf = launches THEN qemu = "gone" ELSE logOf \notin olds
HangUp == GuestGone /\ (Over \/ connected \/ registered)
LogLeave ==
  /\ logger = "loop"
  /\ wakeup = "stop" \/ HangUp
  /\ logger' = "closing"
  /\ UNCHANGED <<main_, procs, know, logOf, orphans, running, wakeup, connected,
                 serialsock, registered, console, past, bounds>>

LogConnect ==
  /\ logger = "loop" /\ ~connected /\ qemu = "run"
  /\ connected' = TRUE
  /\ UNCHANGED <<main_, procs, know, logger, logOf, orphans, running, wakeup,
                 serialsock, registered, console, past, bounds>>

LogSerialBug ==
  /\ logger = "loop" /\ registered /\ serial # {}
  /\ serial' = {} /\ UNCHANGED registered
  /\ stolen' = (stolen \/ (qPc = "serial" /\ command \in serial))
  /\ UNCHANGED <<main_, procs, know, logger, logOf, orphans, running, wakeup,
                 connected, serialsock, lock, command, owed, reply, late, seen, bounds>>

(* Data on the serial socket: taken with the lock, else the socket is no    *)
(* longer polled until the lock is free again.                              *)
LogSerial ==
  /\ logger = "loop" /\ registered /\ serial # {}
  /\ IF lock = "free"
     THEN serial' = {} /\ UNCHANGED registered
     ELSE registered' = FALSE /\ UNCHANGED serial
  /\ stolen' = (stolen \/ (lock = "free" /\ qPc = "serial" /\ command \in serial))
  /\ UNCHANGED <<main_, procs, know, logger, logOf, orphans, running, wakeup,
                 connected, serialsock, lock, command, owed, reply, late, seen, bounds>>

LogRegister ==
  /\ logger = "loop" /\ ~registered /\ serialsock /\ lock = "free"
  /\ registered' = TRUE
  /\ UNCHANGED <<main_, procs, know, logger, logOf, orphans, running, wakeup,
                 connected, serialsock, console, past, bounds>>

(* teardown(): the pipe is closed before running is reset.  The shutdown of *)
(* a console that is gone raises before either.                             *)
LogTeardown ==
  /\ logger = "closing"
  /\ \/ wakeup # "closed" /\ wakeup' = "closed" /\ UNCHANGED <<logger, running>>
     \/ wakeup = "closed" /\ logger' = "dead" /\ running' = FALSE /\ UNCHANGED wakeup
     \/ /\ wakeup # "closed" /\ connected /\ GuestGone
        /\ logger' = "dead" /\ UNCHANGED <<running, wakeup>>
  /\ UNCHANGED <<main_, procs, know, logOf, orphans, connected, serialsock, registered,
                 console, past, bounds>>

(* A thread of an earlier launch ends when its guest has. *)
OrphanEnds ==
  /\ \E n \in orphans \ olds : orphans' = orphans \ {n}
  /\ UNCHANGED <<main_, procs, know, logger, logOf, running, wakeup, connected,
                 serialsock, registered, console, past, bounds>>
-----------------------------------------------------------------------------
(* runqemu starts qemu, which writes its pid file. *)
QemuStarts ==
  /\ runqemu = "run" /\ (qemu = "none" \/ (qemu = "run" /\ ~pidfile))
  /\ qemu' = "run" /\ pidfile' = (qemu = "run")
  /\ UNCHANGED <<launches, runqemu, olds, sigchld, main_, know, thread, console, past,
                 bounds>>

(* The guest answers, or prints something of its own. *)
GuestSpeaks ==
  /\ qemu = "run" /\ serversock = "serial"
  /\ \/ \E n \in owed : owed' = owed \ {n} /\ serial' = serial \cup {n}
     \/ 0 \notin serial /\ serial' = serial \cup {0} /\ UNCHANGED owed
  /\ UNCHANGED <<lock, command, main_, procs, know, thread, past, bounds>>

(* runqemu fails before qemu runs, or is killed and leaves qemu alone; qemu *)
(* ends, and runqemu after it, with or without an error.                    *)
Fault ==
  /\ faults < MaxFaults /\ faults' = faults + 1
  /\ \/ /\ runqemu = "run" /\ runqemu' = "err" /\ sigchld' = TRUE
        /\ UNCHANGED <<qemu, olds>>
     \/ /\ qemu = "run" /\ qemu' = "gone"
        /\ UNCHANGED <<runqemu, olds, sigchld>>
     \/ /\ \E n \in olds : olds' = olds \ {n}
        /\ UNCHANGED <<runqemu, qemu, sigchld>>
  /\ UNCHANGED <<launches, pidfile, main_, know, thread, console, past>>

RunqemuEnds ==
  /\ runqemu = "run" /\ qemu = "gone"
  /\ runqemu' \in {"ok", "err"} /\ sigchld' = TRUE
  /\ UNCHANGED <<launches, qemu, pidfile, olds, main_, know, thread, console, past,
                 bounds>>

MainStep == \/ Launch \/ WaitPid \/ Monitor \/ Console \/ Boot \/ Send \/ Read
            \/ GiveUp \/ Finish \/ CallerStops \/ HandleSIGCHLD
StopStep == \/ StopThread \/ StopWrite \/ StopJoin \/ StopQemu \/ StopGroup
            \/ StopClose
LogStep == LogBegin \/ LogLeave \/ LogConnect \/ LogSerial \/ LogRegister \/ LogTeardown
           \/ OrphanEnds
ProcStep == QemuStarts \/ GuestSpeaks \/ Fault \/ RunqemuEnds

QemuNext == MainStep \/ StopStep \/ LogStep \/ ProcStep
QemuSpec == QemuInit /\ [][QemuNext]_qemuVars
-----------------------------------------------------------------------------
Flags ==
  /\ handler \in BOOLEAN /\ orig \in BOOLEAN /\ sigchld \in BOOLEAN
  /\ exited \in BOOLEAN /\ pidfile \in BOOLEAN /\ running \in BOOLEAN
  /\ connected \in BOOLEAN /\ serialsock \in BOOLEAN /\ registered \in BOOLEAN
  /\ late \in BOOLEAN /\ stolen \in BOOLEAN

Ranges ==
  /\ qPc \in Phases \cup StopSteps \cup {"idle", "again", "failed", "down", "raised"}
  /\ after \in Phases \cup {"down", "failed", "again", "raised"}
  /\ scope \in {"all", "thread"}
  /\ runqemu \in {"none", "run", "ok", "err"} /\ qemu \in {"none", "run", "gone"}
  /\ serversock \in {"none", "listen", "serial"}
  /\ logger \in {"none", "begin", "loop", "closing", "dead"}
  /\ wakeup \in {"none", "empty", "stop", "closed"}
  /\ lock \in {"free", "main"} /\ reply \in {"none", "own", "other"}
  /\ command \in 0..MaxCommands /\ owed \subseteq 1..MaxCommands
  /\ serial \subseteq 0..MaxCommands
  /\ faults \in 0..MaxFaults

Numbers ==
  /\ launches \in 0..MaxRestarts + 1
  /\ qemupid \in 0..launches /\ logOf \in 0..launches
  /\ olds \subseteq 1..launches /\ orphans \subseteq 1..launches
  /\ seen \subseteq 1..launches

QemuTypeOK == Flags /\ Ranges /\ Numbers

(* A stop() that returned has left nothing of its launch behind: no runqemu,*)
(* no qemu, no logging thread, no pid file that a later is_alive() would    *)
(* trust; whichever step of the start, the tests or another stop it came    *)
(* in.  A guest or a thread of an earlier launch is left only where a       *)
(* restart() found its runqemu over, so did not stop it, and is_alive()     *)
(* then put the pid of a later guest in the place of its own: a restart     *)
(* whose own guest does not appear stops the one before.                    *)
(* [qemurunner.py 230-231, 549-609, 616-643]                                *)
NothingLeft ==
  qPc = "down" => /\ runqemu # "run" /\ qemu # "run"
                  /\ logger \in {"none", "dead"}
                  /\ ~pidfile /\ lock = "free"
                  /\ \A n \in olds \cup orphans : \E m \in seen : n < m

(* The logging thread never takes the answer of the command that run_serial *)
(* is waiting for, and a command gets another command's answer only after   *)
(* some command timed out.  [qemurunner.py 656-690, 822-838]                *)
AnswersDelivered == ~stolen /\ (reply = "other" => late)

(* stop() comes to an end, even when the SIGCHLD handler calls it while     *)
(* run_serial holds the serial lock, unless it finds a thread that has not  *)
(* entered its loop: that one gets no message.  [qemurunner.py 134-139,     *)
(* 549-609, 750-772]                                                        *)
StopReturns ==
  (qPc = "s_thread" /\ logger # "begin") ~> (qPc \notin StopSteps)

(* is_alive(): "Qemu pid didn't appear" is said when qemu is not there.     *)
(* [qemurunner.py 298-301, 624-646]                                         *)
AliveIsSeen ==
  qPc = "waitpid" /\ runqemu = "run" /\ qemu = "run" /\ pidfile => IsUp
=============================================================================
