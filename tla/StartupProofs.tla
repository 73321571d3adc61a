---------------------------- MODULE StartupProofs ----------------------------
(* What holds of starting and dying processes for any numbers of proxies,      *)
(* commands, holders, files and kills: the types and, where no proxy starts    *)
(* while another one shuts down, that one proxy runs at a time and that it is  *)
(* told of every change of the settings.                                       *)
EXTENDS Startup, TLAPS

-----------------------------------------------------------------------------
(* Types.                                                                      *)

LEMMA InitTypes == ASSUME StartupAssumption, Init PROVE TypeOK
  BY DEF StartupAssumption, Init, TypeOK, Locking, Values, Files

LEMMA ProxyTypes ==
    ASSUME StartupAssumption, TypeOK, NEW p \in Proxies, ProxyStep(p)
    PROVE  TypeOK'
  <1> USE DEF StartupAssumption, TypeOK, Locking, Values, Files, pidfile, cliVars, holderVars,
              proxyVars
  <1>1. CASE Open(p)
    BY <1>1 DEF Open, Created, Opened
  <1>2. CASE Lock(p)
    BY <1>2 DEF Lock
  <1>3. CASE WritePid(p)
    BY <1>3 DEF WritePid, Created, Opened, Entry
  <1>4. CASE Load(p)
    BY <1>4 DEF Load
  <1>5. CASE Connect(p)
    <2>1. Effective(cfg[p]) \in Values
      BY DEF Effective
    <2> QED
      BY <1>5, <2>1 DEF Connect
  <1>6. CASE TakeReload(p)
    BY <1>6 DEF TakeReload
  <1>7. CASE HolderLost(p)
    BY <1>7 DEF HolderLost
  <1>8. CASE Reload(p)
    <2>1. Effective(config) \in Values
      BY DEF Effective
    <2> QED
      BY <1>8, <2>1 DEF Reload
  <1>9. CASE RemovePidfile(p)
    BY <1>9 DEF RemovePidfile
  <1>10. CASE End(p)
    BY <1>10 DEF End, Dies
  <1>11. CASE \E h \in Holders : Spawn(p, h)
    BY <1>11 DEF Spawn
  <1> QED
    BY <1>1, <1>2, <1>3, <1>4, <1>5, <1>6, <1>7, <1>8, <1>9, <1>10, <1>11 DEF ProxyStep

LEMMA CliTypes ==
    ASSUME StartupAssumption, TypeOK, NEW c \in Clis,
           CliStep(c) \/ Truncate(c) \/ ResetOverride(c) \/ Edit(c)
    PROVE  TypeOK'
  <1> USE DEF StartupAssumption, TypeOK, Locking, Values, Files, pidfile, holderVars, CliElse, At
  <1>1. CASE WriteText(c)
    BY <1>1 DEF WriteText
  <1>2. CASE ReadPid(c)
    <2>1. CASE Nobody
      <3>1. cli' = [cli EXCEPT ![c] = "done"] /\ UNCHANGED <<CliElse, hup, target, override, config>>
        BY <1>2, <2>1 DEF ReadPid
      <3> QED
        BY <3>1
    <2>2. CASE ~Nobody
      <3>1. content[path] \in Proxies
        <4>1. path # 0 /\ content[path] # None
          BY <2>2 DEF Nobody
        <4>2. path \in Files
          BY <4>1
        <4> QED
          BY <4>1, <4>2
      <3>2. cli' = [cli EXCEPT ![c] = "kill"] /\ target' = [target EXCEPT ![c] = content[path]]
        BY <1>2, <2>2 DEF ReadPid
      <3>3. UNCHANGED <<CliElse, hup, override, config>>
        BY <1>2 DEF ReadPid
      <3> QED
        BY <3>1, <3>2, <3>3
    <2> QED
      BY <2>1, <2>2
  <1>3. CASE Hup(c)
    BY <1>3 DEF Hup
  <1>4. CASE Truncate(c)
    BY <1>4 DEF Truncate
  <1>5. CASE ResetOverride(c)
    BY <1>5 DEF ResetOverride
  <1>6. CASE Edit(c)
    BY <1>6 DEF Edit
  <1> QED
    BY <1>1, <1>2, <1>3, <1>4, <1>5, <1>6 DEF CliStep

LEMMA HolderTypes ==
    ASSUME StartupAssumption, TypeOK, NEW h \in Holders,
           HolderStep(h) \/ StartHolder(h) \/ HolderStops(h)
    PROVE  TypeOK'
  <1> USE DEF StartupAssumption, TypeOK, Locking, Values, Files, pidfile, cliVars, HolderElse
  <1>1. CASE Probe(h)
    BY <1>1 DEF Probe
  <1>2. CASE Remove(h)
    BY <1>2 DEF Remove, Removed
  <1>3. CASE Bind(h)
    <2>1. CASE sock = None
      <3>1. /\ sock' = h /\ holder' = [holder EXCEPT ![h] = "listen"]
            /\ UNCHANGED <<HolderElse, pc, conn, spawns, kills>>
        BY <1>3, <2>1 DEF Bind
      <3> QED
        BY <3>1
    <2>2. CASE sock # None
      <3>1. /\ sock' = sock /\ holder' = [holder EXCEPT ![h] = "off"]
            /\ UNCHANGED <<HolderElse, pc, conn, spawns, kills>>
        BY <1>3, <2>2 DEF Bind
      <3> QED
        BY <3>1
    <2> QED
      BY <2>1, <2>2
  <1>4. CASE StartHolder(h)
    BY <1>4 DEF StartHolder
  <1>5. CASE HolderStops(h)
    BY <1>5 DEF HolderStops
  <1> QED
    BY <1>1, <1>2, <1>3, <1>4, <1>5 DEF HolderStep

LEMMA WorldTypes ==
    ASSUME StartupAssumption, TypeOK, NEW p \in Proxies,
           Start(p) \/ PadComes(p) \/ PadGoes(p) \/ Exit(p) \/ Killed(p)
    PROVE  TypeOK'
  <1> USE DEF StartupAssumption, TypeOK, Locking, Values, Files, pidfile, cliVars, holderVars
  <1>1. CASE Start(p)
    BY <1>1 DEF Start
  <1>2. CASE PadComes(p)
    BY <1>2 DEF PadComes
  <1>3. CASE PadGoes(p)
    BY <1>3 DEF PadGoes
  <1>4. CASE Exit(p)
    BY <1>4 DEF Exit
  <1>5. CASE Killed(p)
    BY <1>5 DEF Killed, Dies
  <1> QED
    BY <1>1, <1>2, <1>3, <1>4, <1>5

LEMMA StepTypes == ASSUME StartupAssumption, TypeOK, [Next]_vars PROVE TypeOK'
  <1>1. CASE UNCHANGED vars
    BY <1>1 DEF vars, proxyVars, pidfile, cliVars, holderVars, TypeOK
  <1>2. CASE World
    BY <1>2, WorldTypes, CliTypes, HolderTypes DEF World
  <1> QED
    BY <1>1, <1>2, ProxyTypes, CliTypes, HolderTypes DEF Next

(* Files, processes, commands and sockets keep their types, and a command      *)
(* signals a pid that a pidfile named.                                         *)
THEOREM StartupTypeCorrect == Spec => []TypeOK
  <1>1. Init => TypeOK
    BY StartupAssumption, InitTypes
  <1>2. TypeOK /\ [Next]_vars => TypeOK'
    BY StartupAssumption, StepTypes
  <1> QED
    BY <1>1, <1>2, PTL DEF Spec

-----------------------------------------------------------------------------
(* One proxy. The lock is on the inode, the next proxy finds it by the name:   *)
(* they agree as long as nobody takes the name away from a running proxy. Only *)
(* a proxy that shuts down does that, and it is alone by then.                 *)

Named(p) == pc[p] = "lock" \/ Running(p)

Locks == \A p, q \in Proxies : pc[p] \in Locking /\ pc[q] \in Locking /\ file[p] = file[q] => p = q
Name == \A p \in Proxies : Named(p) => path # 0 /\ file[p] = path
Alone == \A p, q \in Proxies : ShuttingDown(p) /\ pc[q] # "off" => p = q

OneInv == TypeOK /\ Locks /\ Name /\ Alone

LEMMA OneMeansExclusive == ASSUME OneInv PROVE Exclusive
  BY DEF OneInv, Locks, Name, Exclusive, Named, Running

LEMMA StepOne ==
    ASSUME StartupAssumption, ~Overlap, OneInv, [Next]_vars
    PROVE  OneInv'
  <1> USE DEF Locks, Name, Alone, Named, Running, ShuttingDown, Locking
  <1>1. TypeOK /\ TypeOK' /\ Locks /\ Name /\ Alone
    BY StepTypes DEF OneInv
  <1>2. pc \in [Proxies -> Locking \cup {"off", "open", "lock"}] /\ file \in [Proxies -> 0..MaxFiles]
    BY <1>1 DEF TypeOK
  <1>3. CASE UNCHANGED <<pc, file, path>>
    BY <1>1, <1>3 DEF OneInv
  <1>4. ASSUME NEW p \in Proxies, NEW s, UNCHANGED <<file, path>>, pc' = [pc EXCEPT ![p] = s],
               s = "off" \/ /\ pc[p] \in Locking /\ pc[p] # "unlink" /\ pc[p] # "end"
                            /\ s \in Locking /\ s # "unlink" /\ s # "end"
        PROVE  OneInv'
    BY <1>1, <1>2, <1>4 DEF OneInv
  <1>5. ASSUME NEW p \in Proxies, Start(p) PROVE OneInv'
    BY <1>1, <1>2, <1>5 DEF OneInv, Start, pidfile
  <1>6. ASSUME NEW p \in Proxies, Open(p) PROVE OneInv'
    BY <1>1, <1>2, <1>6 DEF OneInv, Open, Created, Opened, Files
  <1>7. ASSUME NEW p \in Proxies, Lock(p) PROVE OneInv'
    BY <1>1, <1>2, <1>7 DEF OneInv, Lock, Held, pidfile
  <1>8. ASSUME NEW p \in Proxies, WritePid(p) PROVE OneInv'
    BY <1>1, <1>2, <1>8 DEF OneInv, WritePid, Created, Opened
  <1>9. ASSUME NEW p \in Proxies, Exit(p) PROVE OneInv'
    <2>1. \A q \in Proxies : q # p => pc[q] = "off" \/ pc[q] = "unlink" \/ pc[q] = "end"
      BY <1>1, <1>2, <1>9 DEF Exit, Starting
    <2> QED
      BY <1>1, <1>2, <1>9, <2>1 DEF OneInv, Exit, pidfile
  <1>10. ASSUME NEW p \in Proxies, RemovePidfile(p) PROVE OneInv'
    BY <1>1, <1>2, <1>10 DEF OneInv, RemovePidfile
  <1>11. ASSUME NEW p \in Proxies, ProxyStep(p) PROVE OneInv'
    <2>1. CASE Load(p) \/ Connect(p) \/ TakeReload(p) \/ HolderLost(p) \/ Reload(p)
      BY <1>3, <1>4, <2>1 DEF Load, Connect, TakeReload, HolderLost, Reload, pidfile
    <2>2. CASE End(p)
      BY <1>4, <2>2 DEF End, Dies, pidfile
    <2>3. CASE \E h \in Holders : Spawn(p, h)
      BY <1>3, <2>3 DEF Spawn, proxyVars, pidfile
    <2> QED
      BY <1>6, <1>7, <1>8, <1>10, <1>11, <2>1, <2>2, <2>3 DEF ProxyStep
  <1>12. ASSUME NEW p \in Proxies, PadComes(p) \/ PadGoes(p) \/ Killed(p) PROVE OneInv'
    BY <1>4, <1>12 DEF PadComes, PadGoes, Killed, Dies, pidfile
  <1>13. ASSUME NEW c \in Clis, CliStep(c) \/ Truncate(c) \/ ResetOverride(c) \/ Edit(c)
         PROVE  OneInv'
    BY <1>3, <1>13 DEF CliStep, WriteText, ReadPid, Hup, Truncate, ResetOverride, Edit, CliElse,
                       pidfile
  <1>14. ASSUME NEW h \in Holders, HolderStep(h) \/ StartHolder(h) \/ HolderStops(h)
         PROVE  OneInv'
    BY <1>3, <1>14 DEF HolderStep, Probe, Remove, Bind, StartHolder, HolderStops, HolderElse,
                       pidfile
  <1>15. CASE UNCHANGED vars
    BY <1>3, <1>15 DEF vars, proxyVars, pidfile
  <1> QED
    BY <1>5, <1>9, <1>11, <1>12, <1>13, <1>14, <1>15 DEF Next, World

(* Where no proxy starts while another one shuts down, one proxy runs at a     *)
(* time, whatever is killed at any step and whatever pidfiles are left over    *)
(* (write_pidfile, remove_pidfile).                                            *)
THEOREM OneProxyRuns == ASSUME ~Overlap PROVE Spec => []Exclusive
  <1>1. Init => OneInv
    BY StartupAssumption, InitTypes
    DEF Init, OneInv, Locks, Name, Alone, Named, Running, ShuttingDown, Locking
  <1>2. OneInv /\ [Next]_vars => OneInv'
    BY StartupAssumption, StepOne
  <1>3. OneInv => Exclusive
    BY OneMeansExclusive
  <1> QED
    BY <1>1, <1>2, <1>3, PTL DEF Spec

-----------------------------------------------------------------------------
(* A SIGHUP finds its proxy. The file that has the name names the proxy that    *)
(* runs, so a command that is still to read it is a debt to this one.          *)

Written ==
    \A p \in Proxies :
        pc[p] \in {"load", "wait", "connect", "serve", "reload"} => content[path] = p

(* What a proxy shows, or will show again: a sink that is up keeps its mode.    *)
Keeps(p) == pc[p] = "serve" \/ (pc[p] \in {"wait", "connect"} /\ setting = "speaker" /\ sunk[p])
Debts == \A p \in Proxies : Keeps(p) /\ override \in Values /\ live[p] # override => Owed(p)

LEMMA StepWritten ==
    ASSUME StartupAssumption, ~Overlap, OneInv, Written, [Next]_vars
    PROVE  Written'
  <1> USE DEF Named, Running, ShuttingDown, Locking
  <1>1. TypeOK /\ Locks /\ Name /\ Alone
    BY DEF OneInv
  <1>2. /\ pc \in [Proxies -> Locking \cup {"off", "open", "lock"}]
        /\ content \in [Files -> Proxies \cup {None}] /\ path \in 0..MaxFiles
    BY <1>1 DEF TypeOK
  <1>3. ASSUME NEW p \in Proxies, NEW s, UNCHANGED <<path, content>>, pc' = [pc EXCEPT ![p] = s],
               s \in {"load", "wait", "connect", "serve", "reload"}
                 => pc[p] \in {"load", "wait", "connect", "serve", "reload"}
        PROVE  Written'
    BY <1>2, <1>3 DEF Written
  <1>4. CASE UNCHANGED <<pc, path, content>>
    BY <1>4 DEF Written
  <1>5. ASSUME NEW p \in Proxies, Open(p) PROVE Written'
    <2>1. ASSUME NEW q \in Proxies, pc'[q] \in {"load", "wait", "connect", "serve", "reload"}
          PROVE  content'[path'] = q
      <3>1. pc[q] = pc'[q] /\ content' = content
        BY <1>2, <1>5, <2>1 DEF Open
      <3>2. path # 0
        BY <1>1, <2>1, <3>1 DEF Name
      <3>3. path' = path
        BY <1>5, <3>2 DEF Open, Created, Opened
      <3> QED
        BY <2>1, <3>1, <3>3 DEF Written
    <2> QED
      BY <2>1 DEF Written
  <1>6. ASSUME NEW p \in Proxies, WritePid(p) PROVE Written'
    <2>1. path # 0 /\ path \in Files
      BY <1>1, <1>2, <1>6 DEF WritePid, Name, Files
    <2>2. path' = path /\ content' = [content EXCEPT ![path] = p] /\ pc' = [pc EXCEPT ![p] = "load"]
      BY <1>6, <2>1 DEF WritePid, Created, Opened, Entry
    <2>3. ASSUME NEW q \in Proxies, pc'[q] \in {"load", "wait", "connect", "serve", "reload"}
          PROVE  q = p
      <3>1. CASE q # p
        <4>1. Running(q) /\ Running(p)
          BY <1>2, <1>6, <2>2, <2>3, <3>1 DEF WritePid
        <4> QED
          BY <4>1, OneMeansExclusive DEF Exclusive
      <3> QED
        BY <3>1
    <2> QED
      BY <1>2, <2>1, <2>2, <2>3 DEF Written
  <1>7. ASSUME NEW p \in Proxies, RemovePidfile(p) PROVE Written'
    <2>1. \A q \in Proxies : q # p => pc[q] = "off"
      BY <1>1, <1>7 DEF RemovePidfile, Alone
    <2>2. \A q \in Proxies : pc'[q] \in {"off", "end"}
      BY <1>2, <1>7, <2>1 DEF RemovePidfile
    <2> QED
      BY <2>2 DEF Written
  <1>8. ASSUME NEW p \in Proxies, ProxyStep(p) PROVE Written'
    <2>1. CASE Lock(p) \/ Load(p) \/ Connect(p) \/ TakeReload(p) \/ HolderLost(p) \/ Reload(p)
      BY <1>3, <2>1 DEF Lock, Load, Connect, TakeReload, HolderLost, Reload, pidfile
    <2>2. CASE End(p)
      BY <1>3, <2>2 DEF End, Dies, pidfile
    <2>3. CASE \E h \in Holders : Spawn(p, h)
      BY <1>4, <2>3 DEF Spawn, proxyVars, pidfile
    <2> QED
      BY <1>5, <1>6, <1>7, <1>8, <2>1, <2>2, <2>3 DEF ProxyStep
  <1>9. ASSUME NEW p \in Proxies,
               Start(p) \/ PadComes(p) \/ PadGoes(p) \/ Exit(p) \/ Killed(p)
        PROVE  Written'
    BY <1>3, <1>9 DEF Start, PadComes, PadGoes, Exit, Killed, Dies, pidfile
  <1>10. ASSUME NEW c \in Clis, CliStep(c) \/ Truncate(c) \/ ResetOverride(c) \/ Edit(c)
         PROVE  Written'
    BY <1>4, <1>10 DEF CliStep, WriteText, ReadPid, Hup, Truncate, ResetOverride, Edit, CliElse,
                       pidfile
  <1>11. ASSUME NEW h \in Holders, HolderStep(h) \/ StartHolder(h) \/ HolderStops(h)
         PROVE  Written'
    BY <1>4, <1>11 DEF HolderStep, Probe, Remove, Bind, StartHolder, HolderStops, HolderElse,
                       pidfile
  <1>12. CASE UNCHANGED vars
    BY <1>4, <1>12 DEF vars, proxyVars, pidfile
  <1> QED
    BY <1>8, <1>9, <1>10, <1>11, <1>12 DEF Next, World

(* A command pays its debt to the proxy that runs.                             *)
LEMMA CliDebts ==
    ASSUME StartupAssumption, OneInv, Written, Debts, NEW c \in Clis,
           CliStep(c) \/ Truncate(c) \/ ResetOverride(c) \/ Edit(c)
    PROVE  Debts'
  <1>1. /\ TypeOK /\ Name /\ cli \in [Clis -> {"ready", "text", "hup", "kill", "done"}]
        /\ target \in [Clis -> Proxies \cup {None}] /\ hup \in [Proxies -> BOOLEAN]
    BY DEF OneInv, TypeOK
  <1>2. UNCHANGED <<setting, pc, sunk, live>>
    BY DEF CliStep, WriteText, ReadPid, Hup, Truncate, ResetOverride, Edit, CliElse
  <1>3. \A p \in Proxies : Keeps(p)' <=> Keeps(p)
    BY <1>2 DEF Keeps
  <1>4. ASSUME NEW s \in {"text", "hup"}, cli' = [cli EXCEPT ![c] = s]
        PROVE  Debts'
    <2>1. cli'[c] \in {"text", "hup"}
      BY <1>1, <1>4
    <2> QED
      BY <2>1 DEF Debts, Owed
  <1>5. CASE ReadPid(c)
    <2> SUFFICES ASSUME NEW p \in Proxies, Keeps(p), override \in Values, live[p] # override
                 PROVE  Owed(p)'
      BY <1>2, <1>3, <1>5 DEF Debts, ReadPid
    <2>1. Owed(p)
      BY DEF Debts
    <2>2. path # 0 /\ content[path] = p
      BY <1>1 DEF Keeps, Written, Name, Named, Running, ShuttingDown, Locking
    <2>3. ~Nobody
      BY <2>2 DEF Nobody, StartupAssumption
    <2>4. cli' = [cli EXCEPT ![c] = "kill"] /\ target' = [target EXCEPT ![c] = p] /\ hup' = hup
      BY <1>5, <2>2, <2>3 DEF ReadPid
    <2>5. cli'[c] = "kill" /\ target'[c] = p
      BY <1>1, <2>4
    <2> QED
      BY <2>5 DEF Owed
  <1>6. CASE Hup(c)
    <2> SUFFICES ASSUME NEW p \in Proxies, Keeps(p), override \in Values, live[p] # override
                 PROVE  Owed(p)'
      BY <1>2, <1>3, <1>6 DEF Debts, Hup
    <2>1. Owed(p) /\ pc[p] # "off"
      BY DEF Debts, Keeps
    <2>2. /\ cli[c] = "kill" /\ cli' = [cli EXCEPT ![c] = "done"] /\ target' = target
          /\ hup' = IF pc[target[c]] = "off" THEN hup ELSE [hup EXCEPT ![target[c]] = TRUE]
      BY <1>6 DEF Hup, At
    <2>3. CASE hup[p] \/ target[c] = p
      <3>1. hup'[p]
        BY <1>1, <2>1, <2>2, <2>3
      <3> QED
        BY <3>1 DEF Owed
    <2>4. CASE ~hup[p] /\ target[c] # p
      <3>1. PICK d \in Clis : cli[d] \in {"text", "hup"} \/ (cli[d] = "kill" /\ target[d] = p)
        BY <2>1, <2>4 DEF Owed
      <3>2. d # c
        BY <2>2, <2>4, <3>1
      <3>3. cli'[d] = cli[d] /\ target'[d] = target[d]
        BY <1>1, <2>2, <3>2
      <3> QED
        BY <3>1, <3>3 DEF Owed
    <2> QED
      BY <2>3, <2>4
  <1>7. CASE WriteText(c) \/ Truncate(c) \/ ResetOverride(c) \/ Edit(c)
    BY <1>4, <1>7 DEF WriteText, Truncate, ResetOverride, Edit
  <1> QED
    BY <1>5, <1>6, <1>7 DEF CliStep

(* Before its first session a proxy has no sink.                               *)
Unsunk == \A p \in Proxies : pc[p] \in {"open", "lock", "write", "load"} => ~sunk[p]

LEMMA StepUnsunk == ASSUME TypeOK, Unsunk, [Next]_vars PROVE Unsunk'
  <1>1. /\ pc \in [Proxies -> Locking \cup {"off", "open", "lock"}]
        /\ sunk \in [Proxies -> BOOLEAN]
    BY DEF TypeOK
  <1>2. ASSUME NEW p \in Proxies, NEW s, pc' = [pc EXCEPT ![p] = s], UNCHANGED sunk,
               s \in {"open", "lock", "write", "load"} => pc[p] \in {"open", "lock", "write", "load"}
        PROVE  Unsunk'
    BY <1>1, <1>2 DEF Unsunk
  <1>3. CASE UNCHANGED <<pc, sunk>>
    BY <1>3 DEF Unsunk
  <1>4. ASSUME NEW p \in Proxies, ProxyStep(p) PROVE Unsunk'
    <2>1. CASE Connect(p)
      BY <1>1, <2>1 DEF Connect, Unsunk
    <2>2. CASE \E h \in Holders : Spawn(p, h)
      BY <1>3, <2>2 DEF Spawn, proxyVars
    <2>3. CASE ~Connect(p) /\ ~\E h \in Holders : Spawn(p, h)
      BY <1>2, <1>4, <2>3 DEF ProxyStep, Open, Lock, WritePid, Load, TakeReload, HolderLost, Reload,
                              RemovePidfile, End, Dies
    <2> QED
      BY <2>1, <2>2, <2>3
  <1>5. ASSUME NEW p \in Proxies, Start(p) PROVE Unsunk'
    BY <1>1, <1>5 DEF Start, Unsunk
  <1>6. ASSUME NEW p \in Proxies, PadComes(p) \/ PadGoes(p) \/ Exit(p) \/ Killed(p)
        PROVE  Unsunk'
    BY <1>2, <1>6 DEF PadComes, PadGoes, Exit, Killed, Dies
  <1>7. ASSUME NEW c \in Clis, CliStep(c) \/ Truncate(c) \/ ResetOverride(c) \/ Edit(c)
        PROVE  Unsunk'
    BY <1>3, <1>7 DEF CliStep, WriteText, ReadPid, Hup, Truncate, ResetOverride, Edit, CliElse
  <1>8. ASSUME NEW h \in Holders, HolderStep(h) \/ StartHolder(h) \/ HolderStops(h)
        PROVE  Unsunk'
    BY <1>3, <1>8 DEF HolderStep, Probe, Remove, Bind, StartHolder, HolderStops, HolderElse
  <1>9. CASE UNCHANGED vars
    BY <1>3, <1>9 DEF vars, proxyVars
  <1> QED
    BY <1>4, <1>5, <1>6, <1>7, <1>8, <1>9 DEF Next, World

(* A proxy runs into no debt by itself: a session that starts and a reload take *)
(* the override as it is.                                                      *)
LEMMA StepDebts ==
    ASSUME StartupAssumption, OneInv, Written, Unsunk, Debts, [Next]_vars
    PROVE  Debts'
  <1>1. /\ pc \in [Proxies -> Locking \cup {"off", "open", "lock"}]
        /\ live \in [Proxies -> Values] /\ sunk \in [Proxies -> BOOLEAN]
        /\ hup \in [Proxies -> BOOLEAN]
    BY DEF OneInv, TypeOK
  <1>2. CASE UNCHANGED <<setting, pc, live, sunk, hup, cliVars>>
    BY <1>2 DEF Debts, Keeps, Owed, cliVars
  <1>3. ASSUME NEW p \in Proxies, NEW s, UNCHANGED <<setting, live, sunk, hup, cliVars>>,
               pc' = [pc EXCEPT ![p] = s],
               \/ s \notin {"wait", "connect", "serve"}
               \/ s \in {"wait", "connect"} /\ pc[p] \in {"wait", "connect"}
               \/ s = "wait" /\ (pc[p] = "serve" \/ ~sunk[p])
        PROVE  Debts'
    BY <1>1, <1>3 DEF Debts, Keeps, Owed, cliVars
  <1>4. \A c \in Values : override \in Values => Effective(c) = override
    BY DEF Effective, Values
  <1>5. cfg \in [Proxies -> Values] /\ config \in Values
    BY DEF OneInv, TypeOK
  <1>6. ASSUME NEW p \in Proxies, ProxyStep(p) PROVE Debts'
    <2>1. CASE Open(p) \/ Lock(p) \/ WritePid(p) \/ HolderLost(p) \/ RemovePidfile(p) \/ End(p)
      BY <1>3, <2>1 DEF Open, Lock, WritePid, HolderLost, RemovePidfile, End, Dies
    <2>2. CASE Load(p)
      <3>1. ~sunk[p]
        BY <2>2 DEF Load, Unsunk
      <3> QED
        BY <1>3, <2>2, <3>1 DEF Load
    <2>3. CASE Connect(p)
      <3>1. CASE setting = "speaker" /\ sunk[p]
        <4>1. /\ UNCHANGED <<setting, live, hup, cliVars>>
              /\ pc[p] = "connect" /\ pc' = [pc EXCEPT ![p] = "serve"]
              /\ sunk' = [sunk EXCEPT ![p] = TRUE]
          BY <2>3, <3>1 DEF Connect
        <4>2. Keeps(p)
          BY <3>1, <4>1 DEF Keeps
        <4>3. \A q \in Proxies : q # p => pc'[q] = pc[q] /\ sunk'[q] = sunk[q]
          BY <1>1, <4>1
        <4>4. \A q \in Proxies : Keeps(q)' => Keeps(q)
          BY <4>1, <4>2, <4>3 DEF Keeps
        <4> QED
          BY <4>1, <4>4 DEF Debts, Owed, cliVars
      <3>2. CASE ~(setting = "speaker" /\ sunk[p])
        <4>1. /\ UNCHANGED <<setting, hup, cliVars>>
              /\ pc' = [pc EXCEPT ![p] = "serve"] /\ sunk' = [sunk EXCEPT ![p] = TRUE]
              /\ live' = [live EXCEPT ![p] = Effective(cfg[p])]
          BY <2>3, <3>2 DEF Connect
        <4>2. \A q \in Proxies : q # p => pc'[q] = pc[q] /\ sunk'[q] = sunk[q] /\ live'[q] = live[q]
          BY <1>1, <4>1
        <4>3. override \in Values => live'[p] = override
          BY <1>1, <1>4, <1>5, <4>1
        <4> QED
          BY <4>1, <4>2, <4>3 DEF Debts, Keeps, Owed, cliVars
      <3> QED
        BY <3>1, <3>2
    <2>4. CASE TakeReload(p)
      <3>1. /\ UNCHANGED <<setting, live, sunk, cliVars>>
            /\ pc' = [pc EXCEPT ![p] = "reload"] /\ hup' = [hup EXCEPT ![p] = FALSE]
        BY <2>4 DEF TakeReload
      <3>2. \A q \in Proxies : q # p => pc'[q] = pc[q] /\ hup'[q] = hup[q]
        BY <1>1, <3>1
      <3>3. pc'[p] = "reload"
        BY <1>1, <3>1
      <3> QED
        BY <3>1, <3>2, <3>3 DEF Debts, Keeps, Owed, cliVars
    <2>5. CASE Reload(p)
      <3>1. /\ UNCHANGED <<setting, hup, sunk, cliVars>>
            /\ pc' = [pc EXCEPT ![p] = "serve"]
            /\ live' = [live EXCEPT ![p] = Effective(config)]
        BY <2>5 DEF Reload
      <3>2. \A q \in Proxies : q # p => pc'[q] = pc[q] /\ live'[q] = live[q]
        BY <1>1, <3>1
      <3>3. override \in Values => live'[p] = override
        BY <1>1, <1>4, <1>5, <3>1
      <3> QED
        BY <3>1, <3>2, <3>3 DEF Debts, Keeps, Owed, cliVars
    <2>6. CASE \E h \in Holders : Spawn(p, h)
      BY <1>2, <2>6 DEF Spawn, proxyVars
    <2> QED
      BY <1>6, <2>1, <2>2, <2>3, <2>4, <2>5, <2>6 DEF ProxyStep
  <1>7. ASSUME NEW p \in Proxies, Start(p) PROVE Debts'
    <2>1. /\ UNCHANGED <<setting, live, cliVars>>
          /\ pc' = [pc EXCEPT ![p] = "open"] /\ hup' = [hup EXCEPT ![p] = FALSE]
          /\ sunk' = [sunk EXCEPT ![p] = FALSE]
      BY <1>7 DEF Start
    <2>2. \A q \in Proxies : q # p => pc'[q] = pc[q] /\ hup'[q] = hup[q] /\ sunk'[q] = sunk[q]
      BY <1>1, <2>1
    <2>3. pc'[p] = "open"
      BY <1>1, <2>1
    <2> QED
      BY <2>1, <2>2, <2>3 DEF Debts, Keeps, Owed, cliVars
  <1>8. ASSUME NEW p \in Proxies, PadComes(p) \/ PadGoes(p) \/ Exit(p) \/ Killed(p)
        PROVE  Debts'
    BY <1>3, <1>8 DEF PadComes, PadGoes, Exit, Killed, Dies
  <1>9. ASSUME NEW h \in Holders, HolderStep(h) \/ StartHolder(h) \/ HolderStops(h)
        PROVE  Debts'
    BY <1>2, <1>9 DEF HolderStep, Probe, Remove, Bind, StartHolder, HolderStops, HolderElse
  <1>10. CASE UNCHANGED vars
    BY <1>2, <1>10 DEF vars, proxyVars
  <1> QED
    BY <1>6, <1>7, <1>8, <1>9, <1>10, CliDebts DEF Next, World

(* Where no proxy starts while another one shuts down, every setting that is    *)
(* changed finds the proxy that serves: by its SIGHUP, or by its start.        *)
THEOREM ReloadIsOwed == ASSUME ~Overlap PROVE Spec => []ReloadOwed
  <1>1. Init => OneInv /\ Written /\ Unsunk /\ Debts
    <2>1. Init => OneInv
      BY StartupAssumption, InitTypes
      DEF Init, OneInv, Locks, Name, Alone, Named, Running, ShuttingDown, Locking
    <2>2. Init => Written /\ Unsunk /\ Debts
      BY DEF Init, Written, Unsunk, Debts, Keeps
    <2> QED
      BY <2>1, <2>2
  <1>2. OneInv /\ Written /\ Unsunk /\ Debts /\ [Next]_vars
          => (OneInv /\ Written /\ Unsunk /\ Debts)'
    BY StartupAssumption, StepOne, StepWritten, StepUnsunk, StepDebts DEF OneInv
  <1>3. Debts => ReloadOwed
    BY DEF Debts, Keeps, ReloadOwed
  <1> QED
    BY <1>1, <1>2, <1>3, PTL DEF Spec
=============================================================================
