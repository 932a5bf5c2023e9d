--------------------------- MODULE QemuRunnerProofs ---------------------------
(***************************************************************************)
(* Proofs about QemuRunner for any number of commands, faults and restarts.*)
(***************************************************************************)
EXTENDS QemuRunner, TLAPS

(* The phases of start() before the serial console is accepted. *)
Early == {"waitpid", "qmp", "console", "boot"}

(* stop_thread() is only called by a start() that is about to fail. *)
ScopeInv == qPc \in StopSteps /\ scope = "thread" => after = "failed"

(* The steps of stop() take away one thing after the other, and nothing     *)
(* brings it back.                                                          *)
LeftInv ==
  /\ qPc \in {"s_qemu", "s_group", "s_close", "down"} => logger \in {"none", "dead"}
  /\ qPc \in {"s_close", "down"} => runqemu # "run" /\ qemu # "run"
  /\ qPc = "down" => ~pidfile /\ lock = "free"

(* The main thread waits for an answer with the serial lock in its hand. *)
LockInv == qPc = "serial" => lock = "main"

(* A socket that is not accepted yet has nothing to read.  Until a command  *)
(* times out, only the last one may be unanswered, and between commands     *)
(* none is.                                                                 *)
ConsoleInv ==
  /\ qPc \in Early => serversock = "listen"
  /\ serversock = "listen" => owed = {} /\ serial = {}
  /\ ~late =>
       /\ owed \subseteq {command} /\ serial \subseteq {0, command}
       /\ owed \cap serial = {}
       /\ qPc = "up" /\ serversock = "serial" => owed = {} /\ serial \subseteq {0}

(* A later launch than n has found the pid of its guest. *)
Lost(n) == \E m \in seen : n < m

(* Until a launch starts its own logging thread, self.thread is another's;  *)
(* it starts one once it knows its guest.                                   *)
ThreadInv ==
  /\ logger \notin {"none", "dead"} => logOf >= 1
  /\ qPc \in {"waitpid", "qmp"} => logOf < launches
  /\ qPc = "qmp" => launches \in seen
  /\ \A n \in orphans : Lost(n)

(* Before the first launch nothing runs. *)
IdleInv == launches = 0 => runqemu = "none" /\ qemu = "none"

(* Once start() has found its guest, qemupid names it until a stop().  A    *)
(* guest of an earlier launch is lost, or qemupid still names it and a stop *)
(* reaches it.                                                              *)
Pids == {"idle", "qmp", "console", "boot", "serial", "up", "again"}
PidInv ==
  /\ qPc \in Pids /\ (runqemu = "run" \/ qemu = "run") => qemupid = launches
  /\ \A n \in olds : n < launches /\ (n = qemupid \/ Lost(n))
  /\ qPc \in {"s_group", "s_close", "down"} => \A n \in olds : Lost(n)

QInv == /\ Ranges /\ Numbers /\ ScopeInv /\ LeftInv /\ LockInv /\ ConsoleInv
        /\ AnswersDelivered /\ ThreadInv /\ PidInv /\ IdleInv

USE QemuAssumption

(* Nothing runs in the initial state. *)
LEMMA InitQInv == QemuInit => QInv
BY DEF QemuInit, QInv, Ranges, Numbers, ScopeInv, LeftInv, LockInv, ConsoleInv,
       AnswersDelivered, ThreadInv, PidInv, IdleInv, Phases, StopSteps, Early

(* Every step preserves QInv. *)
LEMMA NextQInv == QInv /\ [QemuNext]_qemuVars => QInv'
<1> SUFFICES ASSUME QInv, [QemuNext]_qemuVars PROVE QInv'
  OBVIOUS
<1> USE DEF QInv, Ranges, ScopeInv, LeftInv, LockInv, ConsoleInv, AnswersDelivered,
            Phases, StopSteps, Early, main_, procs, know, thread, console, past, bounds,
            Stopping, Goto
<1>1. CASE Launch
  <2>1. Ranges'
    BY <1>1 DEF Launch, Numbers
  <2>2. ScopeInv' /\ LeftInv'
    BY <1>1 DEF Launch
  <2>3. LockInv' /\ ConsoleInv' /\ AnswersDelivered'
    BY <1>1 DEF Launch
  <2>4. Numbers' /\ ThreadInv' /\ PidInv' /\ IdleInv'
    <3>1. /\ launches \in 0..MaxRestarts /\ launches' = launches + 1
          /\ UNCHANGED <<qemupid, seen, logger, logOf, orphans>>
          /\ qPc \in {"idle", "again"} /\ qPc' = "waitpid"
      BY <1>1 DEF Launch, Numbers
    <3>2. olds' = IF qemu = "run" THEN olds \cup {launches} ELSE olds
      BY <1>1 DEF Launch
    <3>3. qemu = "run" => qemupid = launches /\ launches >= 1
      BY <1>1 DEF Launch, PidInv, Pids, Numbers, IdleInv
    <3>4. Numbers'
      BY <3>1, <3>2, <3>3 DEF Numbers
    <3>5. ThreadInv'
      BY <3>1 DEF Numbers, ThreadInv, Lost
    <3>6. \A n \in olds' : n < launches' /\ (n = qemupid' \/ Lost(n)')
      BY <3>1, <3>2, <3>3 DEF Numbers, PidInv, Lost
    <3>7. PidInv'
      BY <3>1, <3>6 DEF PidInv, Pids
    <3>8. IdleInv'
      BY <3>1 DEF IdleInv
    <3> QED BY <3>4, <3>5, <3>7, <3>8
  <2> QED BY <2>1, <2>2, <2>3, <2>4
<1>2. CASE WaitPid
  <2>1. Ranges'
    BY <1>2 DEF WaitPid
  <2>2. ScopeInv' /\ LeftInv'
    BY <1>2 DEF WaitPid
  <2>3. LockInv' /\ ConsoleInv' /\ AnswersDelivered'
    BY <1>2 DEF WaitPid
  <2>4. Numbers' /\ ThreadInv' /\ PidInv' /\ IdleInv'
    <3>1. CASE qPc' = "qmp"
      <4>1. /\ qemupid' = launches /\ seen' = seen \cup {launches}
            /\ qPc = "waitpid" /\ launches >= 1
            /\ UNCHANGED <<launches, logger, logOf, olds, orphans>>
        BY <1>2, <3>1 DEF WaitPid, ThreadInv, Numbers
      <4>2. Numbers'
        BY <4>1 DEF Numbers
      <4>3. ThreadInv'
        BY <3>1, <4>1 DEF Numbers, ThreadInv, Lost
      <4>4. \A n \in olds : n < launches /\ Lost(n)'
        BY <4>1 DEF Numbers, PidInv, Lost
      <4>5. PidInv'
        BY <3>1, <4>1, <4>4 DEF PidInv, Pids
      <4>6. IdleInv'
        BY <4>1 DEF IdleInv
      <4> QED BY <4>2, <4>3, <4>5, <4>6
    <3>2. CASE qPc' # "qmp"
      <4>1. qPc' \in {"failed", "s_thread"} /\ UNCHANGED <<procs, qemupid, seen, thread>>
        BY <1>2, <3>2 DEF WaitPid
      <4> QED BY <4>1 DEF Numbers, ThreadInv, PidInv, IdleInv, Lost, Pids
    <3> QED BY <3>1, <3>2
  <2> QED BY <2>1, <2>2, <2>3, <2>4
<1>3. CASE Monitor
  <2>1. Ranges'
    BY <1>3 DEF Monitor
  <2>2. ScopeInv' /\ LeftInv'
    BY <1>3 DEF Monitor
  <2>3. LockInv' /\ ConsoleInv' /\ AnswersDelivered'
    BY <1>3 DEF Monitor
  <2>4. Numbers' /\ ThreadInv' /\ PidInv' /\ IdleInv'
    <3>1. PidInv'
      BY <1>3 DEF Monitor, PidInv, Lost, Pids
    <3>2. UNCHANGED <<launches, qemupid, olds, seen>> /\ qPc' \notin {"waitpid", "qmp"}
      BY <1>3 DEF Monitor
    <3>3. /\ logOf < launches /\ launches \in seen
          /\ logOf' \in {logOf, launches} /\ orphans' \subseteq orphans \cup {logOf}
          /\ logOf \in orphans' => logOf \in orphans \/ logger \notin {"none", "dead"}
      BY <1>3 DEF Monitor, ThreadInv
    <3>4. logger \notin {"none", "dead"} => logOf >= 1
      BY <1>3 DEF Monitor, ThreadInv
    <3>5. Numbers'
      BY <3>2, <3>3, <3>4 DEF Numbers
    <3>6. ThreadInv'
      <4>1. logger' \notin {"none", "dead"} => logOf' >= 1
        BY <1>3 DEF Monitor, Numbers, ThreadInv
      <4>2. \A n \in orphans' : Lost(n)'
        BY <3>2, <3>3 DEF ThreadInv, Lost
      <4> QED BY <3>2, <4>1, <4>2 DEF ThreadInv
    <3>7. IdleInv'
      BY <1>3 DEF Monitor, IdleInv
    <3> QED BY <3>1, <3>5, <3>6, <3>7
  <2> QED BY <2>1, <2>2, <2>3, <2>4
<1>4. CASE Console
  <2>1. Ranges'
    BY <1>4 DEF Console
  <2>2. ScopeInv' /\ LeftInv'
    BY <1>4 DEF Console
  <2>3. LockInv' /\ ConsoleInv' /\ AnswersDelivered'
    BY <1>4 DEF Console
  <2>4. Numbers' /\ ThreadInv' /\ PidInv' /\ IdleInv'
    BY <1>4 DEF Console, Numbers, ThreadInv, PidInv, IdleInv, Lost, Pids
  <2> QED BY <2>1, <2>2, <2>3, <2>4
<1>5. CASE Boot
  <2>1. Ranges'
    BY <1>5 DEF Boot
  <2>2. ScopeInv' /\ LeftInv'
    BY <1>5 DEF Boot
  <2>3. LockInv' /\ ConsoleInv' /\ AnswersDelivered'
    BY <1>5 DEF Boot
  <2>4. Numbers' /\ ThreadInv' /\ PidInv' /\ IdleInv'
    BY <1>5 DEF Boot, Numbers, ThreadInv, PidInv, IdleInv, Lost, Pids
  <2> QED BY <2>1, <2>2, <2>3, <2>4
<1>6. CASE Send
  <2>1. Ranges'
    BY <1>6 DEF Send
  <2>2. ScopeInv' /\ LeftInv'
    BY <1>6 DEF Send
  <2>3. LockInv' /\ ConsoleInv' /\ AnswersDelivered'
    BY <1>6 DEF Send
  <2>4. Numbers' /\ ThreadInv' /\ PidInv' /\ IdleInv'
    BY <1>6 DEF Send, Numbers, ThreadInv, PidInv, IdleInv, Lost, Pids
  <2> QED BY <2>1, <2>2, <2>3, <2>4
<1>7. CASE Read
  <2>1. Ranges'
    BY <1>7 DEF Read
  <2>2. ScopeInv' /\ LeftInv'
    BY <1>7 DEF Read
  <2>3. LockInv' /\ ConsoleInv' /\ AnswersDelivered'
    <3>1. CASE serial = {0}
      BY <1>7, <3>1 DEF Read
    <3>2. CASE serial # {0}
      <4>1. late \/ command \in serial
        BY <1>7, <3>2 DEF Read
      <4>2. late \/ (owed = {} /\ reply' = "own")
        BY <1>7, <3>2, <4>1 DEF Read
      <4>3. qPc' = "up" /\ serial' = {} /\ UNCHANGED <<owed, late, stolen, command, serversock>>
        BY <1>7, <3>2 DEF Read
      <4> QED BY <4>2, <4>3
    <3> QED BY <3>1, <3>2
  <2>4. Numbers' /\ ThreadInv' /\ PidInv' /\ IdleInv'
    BY <1>7 DEF Read, Numbers, ThreadInv, PidInv, IdleInv, Lost, Pids
  <2> QED BY <2>1, <2>2, <2>3, <2>4
<1>8. CASE GiveUp
  <2>1. Ranges'
    BY <1>8 DEF GiveUp
  <2>2. ScopeInv' /\ LeftInv'
    BY <1>8 DEF GiveUp
  <2>3. LockInv' /\ ConsoleInv' /\ AnswersDelivered'
    BY <1>8 DEF GiveUp
  <2>4. Numbers' /\ ThreadInv' /\ PidInv' /\ IdleInv'
    BY <1>8 DEF GiveUp, Numbers, ThreadInv, PidInv, IdleInv, Lost, Pids
  <2> QED BY <2>1, <2>2, <2>3, <2>4
<1>9. CASE Finish
  <2>1. Ranges'
    BY <1>9 DEF Finish
  <2>2. ScopeInv' /\ LeftInv'
    BY <1>9 DEF Finish
  <2>3. LockInv' /\ ConsoleInv' /\ AnswersDelivered'
    BY <1>9 DEF Finish
  <2>4. Numbers' /\ ThreadInv' /\ PidInv' /\ IdleInv'
    BY <1>9 DEF Finish, Numbers, ThreadInv, PidInv, IdleInv, Lost, Pids
  <2> QED BY <2>1, <2>2, <2>3, <2>4
<1>10. CASE CallerStops
  <2>1. Ranges'
    BY <1>10 DEF CallerStops
  <2>2. ScopeInv' /\ LeftInv'
    BY <1>10 DEF CallerStops
  <2>3. LockInv' /\ ConsoleInv' /\ AnswersDelivered'
    BY <1>10 DEF CallerStops
  <2>4. Numbers' /\ ThreadInv' /\ PidInv' /\ IdleInv'
    BY <1>10 DEF CallerStops, Numbers, ThreadInv, PidInv, IdleInv, Lost, Pids
  <2> QED BY <2>1, <2>2, <2>3, <2>4
<1>11. CASE HandleSIGCHLD
  <2>1. Ranges'
    BY <1>11 DEF HandleSIGCHLD
  <2>2. ScopeInv' /\ LeftInv'
    BY <1>11 DEF HandleSIGCHLD
  <2>3. LockInv' /\ ConsoleInv' /\ AnswersDelivered'
    BY <1>11 DEF HandleSIGCHLD
  <2>4. Numbers' /\ ThreadInv' /\ PidInv' /\ IdleInv'
    BY <1>11 DEF HandleSIGCHLD, Numbers, ThreadInv, PidInv, IdleInv, Lost, Pids
  <2> QED BY <2>1, <2>2, <2>3, <2>4
<1>12. CASE StopThread
  <2>1. Ranges'
    BY <1>12 DEF StopThread
  <2>2. ScopeInv' /\ LeftInv'
    BY <1>12 DEF StopThread
  <2>3. LockInv' /\ ConsoleInv' /\ AnswersDelivered'
    BY <1>12 DEF StopThread
  <2>4. Numbers' /\ ThreadInv' /\ PidInv' /\ IdleInv'
    BY <1>12 DEF StopThread, Numbers, ThreadInv, PidInv, IdleInv, Lost, Pids
  <2> QED BY <2>1, <2>2, <2>3, <2>4
<1>13. CASE StopWrite
  <2>1. Ranges'
    BY <1>13 DEF StopWrite
  <2>2. ScopeInv' /\ LeftInv'
    BY <1>13 DEF StopWrite
  <2>3. LockInv' /\ ConsoleInv' /\ AnswersDelivered'
    BY <1>13 DEF StopWrite
  <2>4. Numbers' /\ ThreadInv' /\ PidInv' /\ IdleInv'
    BY <1>13 DEF StopWrite, Numbers, ThreadInv, PidInv, IdleInv, Lost, Pids
  <2> QED BY <2>1, <2>2, <2>3, <2>4
<1>14. CASE StopJoin
  <2>1. Ranges'
    BY <1>14 DEF StopJoin
  <2>2. ScopeInv' /\ LeftInv'
    BY <1>14 DEF StopJoin
  <2>3. LockInv' /\ ConsoleInv' /\ AnswersDelivered'
    BY <1>14 DEF StopJoin
  <2>4. Numbers' /\ ThreadInv' /\ PidInv' /\ IdleInv'
    BY <1>14 DEF StopJoin, Numbers, ThreadInv, PidInv, IdleInv, Lost, Pids
  <2> QED BY <2>1, <2>2, <2>3, <2>4
<1>15. CASE StopQemu
  <2>1. Ranges'
    BY <1>15 DEF StopQemu
  <2>2. ScopeInv' /\ LeftInv'
    BY <1>15 DEF StopQemu
  <2>3. LockInv' /\ ConsoleInv' /\ AnswersDelivered'
    BY <1>15 DEF StopQemu
  <2>4. Numbers' /\ ThreadInv' /\ PidInv' /\ IdleInv'
    BY <1>15 DEF StopQemu, Numbers, ThreadInv, PidInv, IdleInv, Lost, Pids
  <2> QED BY <2>1, <2>2, <2>3, <2>4
<1>16. CASE StopGroup
  <2>1. Ranges'
    BY <1>16 DEF StopGroup
  <2>2. ScopeInv' /\ LeftInv'
    BY <1>16 DEF StopGroup
  <2>3. LockInv' /\ ConsoleInv' /\ AnswersDelivered'
    BY <1>16 DEF StopGroup
  <2>4. Numbers' /\ ThreadInv' /\ PidInv' /\ IdleInv'
    BY <1>16 DEF StopGroup, Numbers, ThreadInv, PidInv, IdleInv, Lost, Pids
  <2> QED BY <2>1, <2>2, <2>3, <2>4
<1>17. CASE StopClose
  <2>1. Ranges'
    BY <1>17 DEF StopClose
  <2>2. ScopeInv' /\ LeftInv'
    BY <1>17 DEF StopClose
  <2>3. LockInv' /\ ConsoleInv' /\ AnswersDelivered'
    BY <1>17 DEF StopClose
  <2>4. Numbers' /\ ThreadInv' /\ PidInv' /\ IdleInv'
    BY <1>17 DEF StopClose, Numbers, ThreadInv, PidInv, IdleInv, Lost, Pids
  <2> QED BY <2>1, <2>2, <2>3, <2>4
<1>18. CASE LogStep
  <2>1. CASE LogBegin
    <3>1. Ranges' /\ ScopeInv' /\ LeftInv'
      BY <2>1 DEF LogBegin
    <3>2. LockInv' /\ ConsoleInv' /\ AnswersDelivered'
      BY <2>1 DEF LogBegin
    <3>3. Numbers' /\ ThreadInv' /\ PidInv' /\ IdleInv'
      BY <2>1 DEF LogBegin, Numbers, ThreadInv, PidInv, IdleInv, Lost, Pids
    <3> QED BY <3>1, <3>2, <3>3
  <2>2. CASE LogLeave
    <3>1. Ranges' /\ ScopeInv' /\ LeftInv'
      BY <2>2 DEF LogLeave
    <3>2. LockInv' /\ ConsoleInv' /\ AnswersDelivered'
      BY <2>2 DEF LogLeave
    <3>3. Numbers' /\ ThreadInv' /\ PidInv' /\ IdleInv'
      BY <2>2 DEF LogLeave, Numbers, ThreadInv, PidInv, IdleInv, Lost, Pids
    <3> QED BY <3>1, <3>2, <3>3
  <2>3. CASE LogConnect
    <3>1. Ranges' /\ ScopeInv' /\ LeftInv'
      BY <2>3 DEF LogConnect
    <3>2. LockInv' /\ ConsoleInv' /\ AnswersDelivered'
      BY <2>3 DEF LogConnect
    <3>3. Numbers' /\ ThreadInv' /\ PidInv' /\ IdleInv'
      BY <2>3 DEF LogConnect, Numbers, ThreadInv, PidInv, IdleInv, Lost, Pids
    <3> QED BY <3>1, <3>2, <3>3
  <2>4. CASE LogRegister
    <3>1. Ranges' /\ ScopeInv' /\ LeftInv'
      BY <2>4 DEF LogRegister
    <3>2. LockInv' /\ ConsoleInv' /\ AnswersDelivered'
      BY <2>4 DEF LogRegister
    <3>3. Numbers' /\ ThreadInv' /\ PidInv' /\ IdleInv'
      BY <2>4 DEF LogRegister, Numbers, ThreadInv, PidInv, IdleInv, Lost, Pids
    <3> QED BY <3>1, <3>2, <3>3
  <2>5. CASE LogTeardown
    <3>1. Ranges' /\ ScopeInv' /\ LeftInv'
      BY <2>5 DEF LogTeardown
    <3>2. LockInv' /\ ConsoleInv' /\ AnswersDelivered'
      BY <2>5 DEF LogTeardown
    <3>3. Numbers' /\ ThreadInv' /\ PidInv' /\ IdleInv'
      BY <2>5 DEF LogTeardown, Numbers, ThreadInv, PidInv, IdleInv, Lost, Pids
    <3> QED BY <3>1, <3>2, <3>3
  <2>6. CASE OrphanEnds
    <3>1. Ranges' /\ ScopeInv' /\ LeftInv'
      BY <2>6 DEF OrphanEnds
    <3>2. LockInv' /\ ConsoleInv' /\ AnswersDelivered'
      BY <2>6 DEF OrphanEnds
    <3>3. Numbers' /\ ThreadInv' /\ PidInv' /\ IdleInv'
      BY <2>6 DEF OrphanEnds, Numbers, ThreadInv, PidInv, IdleInv, Lost, Pids
    <3> QED BY <3>1, <3>2, <3>3
  <2>7. CASE LogSerial
    <3>1. ~stolen'
      BY <2>7 DEF LogSerial
    <3>2. /\ UNCHANGED <<main_, procs, know, logger, logOf, orphans, wakeup, lock, command,
                        owed, reply, late, seen, bounds>>
          /\ serial' \subseteq serial
      <4>1. CASE lock = "free"
        BY <2>7, <4>1 DEF LogSerial
      <4>2. CASE lock # "free"
        BY <2>7, <4>2 DEF LogSerial
      <4> QED BY <4>1, <4>2
    <3>3. Ranges' /\ ScopeInv' /\ LeftInv'
      BY <3>2
    <3>4. LockInv' /\ ConsoleInv' /\ AnswersDelivered'
      BY <3>1, <3>2
    <3>5. Numbers' /\ ThreadInv' /\ PidInv' /\ IdleInv'
      BY <3>2 DEF Numbers, ThreadInv, PidInv, IdleInv, Lost, Pids
    <3> QED BY <3>3, <3>4, <3>5
  <2> QED BY <1>18, <2>1, <2>2, <2>3, <2>4, <2>5, <2>6, <2>7 DEF LogStep
<1>19. CASE ProcStep
  <2>1. CASE QemuStarts
    <3>1. Ranges' /\ ScopeInv' /\ LeftInv'
      BY <2>1 DEF QemuStarts
    <3>2. LockInv' /\ ConsoleInv' /\ AnswersDelivered'
      BY <2>1 DEF QemuStarts
    <3>3. Numbers' /\ ThreadInv' /\ PidInv' /\ IdleInv'
      BY <2>1 DEF QemuStarts, Numbers, ThreadInv, PidInv, IdleInv, Lost, Pids
    <3> QED BY <3>1, <3>2, <3>3
  <2>2. CASE Fault
    <3>1. /\ olds' \subseteq olds
          /\ runqemu' = "run" \/ qemu' = "run" => runqemu = "run" \/ qemu = "run"
          /\ runqemu = "none" /\ qemu = "none" => UNCHANGED <<runqemu, qemu>>
          /\ UNCHANGED <<launches, main_, know, thread, console, past>>
      BY <2>2 DEF Fault
    <3>2. Ranges' /\ ScopeInv' /\ LeftInv'
      BY <2>2 DEF Fault
    <3>3. LockInv' /\ ConsoleInv' /\ AnswersDelivered'
      BY <2>2 DEF Fault
    <3>4. Numbers' /\ IdleInv'
      BY <3>1 DEF Numbers, IdleInv
    <3>5. ThreadInv' /\ PidInv'
      BY <3>1 DEF ThreadInv, PidInv, Lost, Pids
    <3> QED BY <3>2, <3>3, <3>4, <3>5
  <2>3. CASE RunqemuEnds
    <3>1. Ranges' /\ ScopeInv' /\ LeftInv'
      BY <2>3 DEF RunqemuEnds
    <3>2. LockInv' /\ ConsoleInv' /\ AnswersDelivered'
      BY <2>3 DEF RunqemuEnds
    <3>3. Numbers' /\ ThreadInv' /\ PidInv' /\ IdleInv'
      BY <2>3 DEF RunqemuEnds, Numbers, ThreadInv, PidInv, IdleInv, Lost, Pids
    <3> QED BY <3>1, <3>2, <3>3
  <2>4. CASE GuestSpeaks
    <3>1. /\ UNCHANGED <<lock, command, main_, procs, know, thread, past, bounds>>
          /\ serversock = "serial"
          /\ \/ \E n \in owed : owed' = owed \ {n} /\ serial' = serial \cup {n}
             \/ owed' = owed /\ serial' = serial \cup {0}
      BY <2>4 DEF GuestSpeaks
    <3>2. Numbers' /\ ThreadInv' /\ PidInv' /\ IdleInv'
      BY <3>1 DEF Numbers, ThreadInv, PidInv, IdleInv, Lost, Pids
    <3>3. CASE \E n \in owed : owed' = owed \ {n} /\ serial' = serial \cup {n}
      <4>1. PICK n \in owed : owed' = owed \ {n} /\ serial' = serial \cup {n}
        BY <3>3
      <4>2. Ranges' /\ ScopeInv' /\ LeftInv'
        BY <3>1, <4>1
      <4>3. LockInv' /\ ConsoleInv' /\ AnswersDelivered'
        BY <3>1, <4>1
      <4> QED BY <3>2, <4>2, <4>3
    <3>4. CASE owed' = owed /\ serial' = serial \cup {0}
      <4>1. Ranges' /\ ScopeInv' /\ LeftInv'
        BY <3>1, <3>4
      <4>2. LockInv' /\ ConsoleInv' /\ AnswersDelivered'
        BY <3>1, <3>4
      <4> QED BY <3>2, <4>1, <4>2
    <3> QED BY <3>1, <3>3, <3>4
  <2> QED BY <1>19, <2>1, <2>2, <2>3, <2>4 DEF ProcStep
<1>20. CASE UNCHANGED qemuVars
  BY <1>20 DEF qemuVars, Numbers, ThreadInv, PidInv, IdleInv, Lost, Pids
<1> QED
  BY <1>1, <1>2, <1>3, <1>4, <1>5, <1>6, <1>7, <1>8, <1>9, <1>10, <1>11, <1>12, <1>13,
     <1>14, <1>15, <1>16, <1>17, <1>18, <1>19, <1>20
     DEF QemuNext, MainStep, StopStep

(* QInv holds in every reachable state. *)
THEOREM QemuInvariance == QemuSpec => []QInv
<1> QED BY InitQInv, NextQInv, PTL DEF QemuSpec

(* A stop() that returned left no process, no thread, no pid file and no    *)
(* lock of its launch behind, from wherever it was called, and of earlier   *)
(* launches only what a restart() passed over and a later launch with a     *)
(* guest of its own outlived.                                               *)
THEOREM StopLeavesNothing == QemuSpec => []NothingLeft
<1>1. QInv => NothingLeft
  BY DEF QInv, LeftInv, ThreadInv, PidInv, Lost, NothingLeft
<1> QED BY <1>1, QemuInvariance, PTL

(* The logging thread takes no answer from run_serial, and a command gets   *)
(* another one's answer only after a timeout.                               *)
THEOREM AnswersAreDelivered == QemuSpec => []AnswersDelivered
<1>1. QInv => AnswersDelivered
  BY DEF QInv
<1> QED BY <1>1, QemuInvariance, PTL
===============================================================================
