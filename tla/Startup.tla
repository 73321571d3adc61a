------------------------------- MODULE Startup -------------------------------
(* Processes that come and go: proxies that exclude each other by a locked     *)
(* pidfile (proxy.rs), commands that write an override file or edit config.toml*)
(* and SIGHUP whoever the pidfile names (main.rs), and holder daemons started  *)
(* by systemd or by a proxy that finds the socket dead (ipc.rs, holder.rs).    *)
(* Every process may be killed at any time. A process and its pid are one; a   *)
(* pid may be that of a later process. A file is an inode: it outlives its     *)
(* name while a process has it open, and so does its lock.                     *)
EXTENDS Naturals

CONSTANTS
    Proxies,      \* pids of proxies
    Clis,         \* commands, one run each
    Holders,      \* holder daemons
    None,
    Settings,     \* which override: "speaker" (and gain) or "xinput"
    Overlap,      \* a proxy may be started while another one shuts down
    MaxFiles,     \* pidfiles ever created
    MaxStarts,    \* starts of proxies
    MaxHolders,   \* starts of holders by systemd or by hand
    MaxKills      \* processes killed or told to stop

ASSUME StartupAssumption ==
    /\ None \notin Proxies \cup Holders
    /\ Settings \subseteq {"speaker", "xinput"} /\ Overlap \in BOOLEAN
    /\ {MaxFiles, MaxStarts, MaxHolders, MaxKills} \subseteq Nat

Files == 1..MaxFiles
Values == {"on", "off"}

VARIABLES
    setting,      \* fixed
    (* proxies *)
    pc, file,     \* program counter; the pidfile it opened (and locked)
    cfg, live,    \* `cfg` of run(); the mode, or whether the Xbox pad is there
    sunk,         \* its audio sink is up
    hup, conn,    \* RELOAD; the holder it is connected to
    starts,
    (* the file system *)
    path,         \* the pidfile at its name, 0: none
    content,      \* the pid in each
    files,        \* pidfiles created so far
    override,     \* the override file: a value, "empty", or "none"
    config,       \* the setting in config.toml
    sock,         \* the holder whose socket is at the path, or None
    (* commands and holders *)
    cli, target,  \* program counter, the pid to signal
    holder,       \* program counter
    spawns, kills

proxyVars == <<pc, file, cfg, live, sunk, hup, conn, starts>>
pidfile == <<path, content, files>>
cliVars == <<cli, target, override, config>>
holderVars == <<holder, sock, spawns>>
vars == <<setting, proxyVars, pidfile, cliVars, holderVars, kills>>

Locking == {"write", "load", "wait", "connect", "serve", "reload", "unlink", "end"}

TypeOK ==
    /\ setting \in Settings
    /\ pc \in [Proxies -> Locking \cup {"off", "open", "lock"}]
    /\ file \in [Proxies -> 0..MaxFiles]
    /\ cfg \in [Proxies -> Values] /\ live \in [Proxies -> Values]
    /\ sunk \in [Proxies -> BOOLEAN] /\ hup \in [Proxies -> BOOLEAN]
    /\ conn \in [Proxies -> Holders \cup {None}] /\ starts \in 0..MaxStarts
    /\ path \in 0..MaxFiles /\ files \in 0..MaxFiles
    /\ content \in [Files -> Proxies \cup {None}]
    /\ override \in Values \cup {"empty", "none"} /\ config \in Values
    /\ sock \in Holders \cup {None}
    /\ cli \in [Clis -> {"ready", "text", "hup", "kill", "done"}]
    /\ target \in [Clis -> Proxies \cup {None}]
    /\ \A c \in Clis : cli[c] = "kill" => target[c] # None
    /\ holder \in [Holders -> {"off", "probe", "remove", "bind", "listen"}]
    /\ spawns \in 0..MaxHolders /\ kills \in 0..MaxKills

Init ==
    /\ setting \in Settings
    /\ pc = [p \in Proxies |-> "off"] /\ file = [p \in Proxies |-> 0]
    /\ cfg = [p \in Proxies |-> "off"] /\ live = [p \in Proxies |-> "off"]
    /\ sunk = [p \in Proxies |-> FALSE] /\ hup = [p \in Proxies |-> FALSE]
    /\ conn = [p \in Proxies |-> None] /\ starts = 0
    /\ path = 0 /\ content = [f \in Files |-> None] /\ files = 0
    /\ override = "none" /\ config = "off" /\ sock = None
    /\ cli = [c \in Clis |-> "ready"] /\ target = [c \in Clis |-> None]
    /\ holder = [h \in Holders |-> "off"] /\ spawns = 0 /\ kills = 0

-----------------------------------------------------------------------------
(* Proxies. write_pidfile: open or create, try the lock, write the pid to the  *)
(* file that has the name by then.                                             *)

ShuttingDown(p) == pc[p] \in {"unlink", "end"}
Starting(p) == pc[p] \in {"open", "lock", "write"}

Start(p) ==
    /\ pc[p] = "off" /\ starts < MaxStarts
    /\ Overlap \/ \A q \in Proxies : ~ShuttingDown(q)
    /\ pc' = [pc EXCEPT ![p] = "open"] /\ starts' = starts + 1
    /\ hup' = [hup EXCEPT ![p] = FALSE] /\ sunk' = [sunk EXCEPT ![p] = FALSE]
    /\ UNCHANGED <<setting, file, cfg, live, conn, pidfile, cliVars, holderVars, kills>>

(* The file an open() with O_CREAT gets. *)
Opened == IF path = 0 THEN files + 1 ELSE path
Created == files' = (IF path = 0 THEN files + 1 ELSE files) /\ path' = Opened

Open(p) ==
    /\ pc[p] = "open" /\ Opened \in Files
    /\ Created /\ file' = [file EXCEPT ![p] = Opened]
    /\ pc' = [pc EXCEPT ![p] = "lock"]
    /\ UNCHANGED <<setting, cfg, live, sunk, hup, conn, starts, content, cliVars, holderVars, kills>>

MutantHeld(f) == content[f] # None /\ pc[content[f]] \in Locking
Held(f) == \E q \in Proxies : file[q] = f /\ pc[q] \in Locking

Lock(p) ==
    /\ pc[p] = "lock"
    /\ pc' = [pc EXCEPT ![p] = IF Held(file[p]) THEN "off" ELSE "write"]
    /\ UNCHANGED <<setting, file, cfg, live, sunk, hup, conn, starts, pidfile, cliVars,
                   holderVars, kills>>

MutantEntry(f, p) == IF content[f] = None THEN p ELSE content[f]
Entry(f, p) == p

WritePid(p) ==
    /\ pc[p] = "write" /\ Opened \in Files
    /\ Created /\ content' = [content EXCEPT ![Opened] = Entry(Opened, p)]
    /\ pc' = [pc EXCEPT ![p] = "load"]
    /\ UNCHANGED <<setting, file, cfg, live, sunk, hup, conn, starts, cliVars, holderVars, kills>>

Load(p) ==
    /\ pc[p] = "load"
    /\ cfg' = [cfg EXCEPT ![p] = config] /\ pc' = [pc EXCEPT ![p] = "wait"]
    /\ UNCHANGED <<setting, file, live, sunk, hup, conn, starts, pidfile, cliVars, holderVars, kills>>

(* A pad is there. *)
PadComes(p) ==
    /\ pc[p] = "wait" /\ pc' = [pc EXCEPT ![p] = "connect"]
    /\ UNCHANGED <<setting, file, cfg, live, sunk, hup, conn, starts, pidfile, cliVars,
                   holderVars, kills>>

(* current_mode and current_haptic_gain skip an empty override; xinput's       *)
(* effective takes it for "off".                                               *)
Effective(c) ==
    CASE override \in Values -> override
      [] override = "none" -> c
      [] override = "empty" -> IF setting = "speaker" THEN c ELSE "off"

Reachable == sock # None /\ holder[sock] = "listen"

(* ensure_holder, then the session: the Xbox pad is raised afresh from run's   *)
(* cfg; a sink that is up keeps its mode.                                      *)
Connect(p) ==
    /\ pc[p] = "connect" /\ Reachable
    /\ conn' = [conn EXCEPT ![p] = sock] /\ pc' = [pc EXCEPT ![p] = "serve"]
    /\ sunk' = [sunk EXCEPT ![p] = TRUE]
    /\ live' = IF setting = "speaker" /\ sunk[p] THEN live
                                                 ELSE [live EXCEPT ![p] = Effective(cfg[p])]
    /\ UNCHANGED <<setting, file, cfg, hup, starts, pidfile, cliVars, holderVars, kills>>

(* ensure_holder spawns a holder if nobody listens, and waits for one. *)
Spawn(p, h) ==
    /\ pc[p] = "connect" /\ ~Reachable /\ holder[h] = "off"
    /\ \A g \in Holders : holder[g] \in {"off", "listen"}
    /\ holder' = [holder EXCEPT ![h] = "probe"]
    /\ UNCHANGED <<setting, proxyVars, pidfile, cliVars, sock, spawns, kills>>

(* The pad goes. *)
PadGoes(p) ==
    /\ pc[p] = "serve"
    /\ pc' = [pc EXCEPT ![p] = "wait"] /\ conn' = [conn EXCEPT ![p] = None]
    /\ UNCHANGED <<setting, file, cfg, live, sunk, hup, starts, pidfile, cliVars, holderVars, kills>>

(* The holder went: the session ends as well. *)
HolderLost(p) ==
    /\ pc[p] = "serve" /\ conn[p] = None /\ pc' = [pc EXCEPT ![p] = "wait"]
    /\ UNCHANGED <<setting, file, cfg, live, sunk, hup, conn, starts, pidfile, cliVars,
                   holderVars, kills>>

(* RELOAD is taken back before the files are read. *)
TakeReload(p) ==
    /\ pc[p] = "serve" /\ hup[p]
    /\ hup' = [hup EXCEPT ![p] = FALSE] /\ pc' = [pc EXCEPT ![p] = "reload"]
    /\ UNCHANGED <<setting, file, cfg, live, sunk, conn, starts, pidfile, cliVars, holderVars, kills>>

Reload(p) ==
    /\ pc[p] = "reload"
    /\ live' = [live EXCEPT ![p] = Effective(config)] /\ pc' = [pc EXCEPT ![p] = "serve"]
    /\ UNCHANGED <<setting, file, cfg, sunk, hup, conn, starts, pidfile, cliVars, holderVars, kills>>

(* SIGTERM is seen between sessions and in relay_loop. *)
Exit(p) ==
    /\ pc[p] \in {"wait", "serve"} /\ kills < MaxKills /\ kills' = kills + 1
    /\ Overlap \/ \A q \in Proxies : ~Starting(q)
    /\ pc' = [pc EXCEPT ![p] = "unlink"] /\ conn' = [conn EXCEPT ![p] = None]
    /\ UNCHANGED <<setting, file, cfg, live, sunk, hup, starts, pidfile, cliVars, holderVars>>

RemovePidfile(p) ==
    /\ pc[p] = "unlink" /\ path' = 0 /\ pc' = [pc EXCEPT ![p] = "end"]
    /\ UNCHANGED <<setting, file, cfg, live, sunk, hup, conn, starts, content, files, cliVars,
                   holderVars, kills>>

(* The end of the process lets go of the lock. *)
Dies(p) ==
    /\ pc' = [pc EXCEPT ![p] = "off"] /\ conn' = [conn EXCEPT ![p] = None]
    /\ UNCHANGED <<setting, file, cfg, live, sunk, hup, starts, pidfile, cliVars, holderVars>>

End(p) == pc[p] = "end" /\ Dies(p) /\ UNCHANGED kills

(* Killed; or the pad's node is masked by an old bind mount, fatal as well. *)
Killed(p) == pc[p] # "off" /\ kills < MaxKills /\ kills' = kills + 1 /\ Dies(p)

-----------------------------------------------------------------------------
(* Commands: speaker_cmd, gain_cmd, xinput_cmd and `keymap reload`.            *)

CliElse == <<setting, file, cfg, live, sunk, conn, starts, pc, pidfile, holderVars, kills>>
At(c, l) == cli[c] = l

(* fs::write truncates first. *)
Truncate(c) ==
    /\ At(c, "ready") /\ cli' = [cli EXCEPT ![c] = "text"] /\ override' = "empty"
    /\ UNCHANGED <<CliElse, hup, target, config>>

WriteText(c) ==
    /\ At(c, "text") /\ cli' = [cli EXCEPT ![c] = "hup"] /\ override' \in Values
    /\ UNCHANGED <<CliElse, hup, target, config>>

ResetOverride(c) ==
    /\ At(c, "ready") /\ cli' = [cli EXCEPT ![c] = "hup"] /\ override' = "none"
    /\ UNCHANGED <<CliElse, hup, target, config>>

(* The user edits config.toml, then reloads. *)
Edit(c) ==
    /\ At(c, "ready") /\ cli' = [cli EXCEPT ![c] = "hup"] /\ config' \in Values
    /\ UNCHANGED <<CliElse, hup, target, override>>

(* hup_proxy: without a pid in the pidfile, exit(1). *)
MutantNobody == path = 0
Nobody == path = 0 \/ content[path] = None

ReadPid(c) ==
    /\ At(c, "hup")
    /\ IF Nobody THEN cli' = [cli EXCEPT ![c] = "done"] /\ UNCHANGED target
                 ELSE /\ cli' = [cli EXCEPT ![c] = "kill"]
                      /\ target' = [target EXCEPT ![c] = content[path]]
    /\ UNCHANGED <<CliElse, hup, override, config>>

Hup(c) ==
    /\ At(c, "kill") /\ cli' = [cli EXCEPT ![c] = "done"]
    /\ hup' = IF pc[target[c]] = "off" THEN hup ELSE [hup EXCEPT ![target[c]] = TRUE]
    /\ UNCHANGED <<CliElse, target, override, config>>

-----------------------------------------------------------------------------
(* Holder daemons (holder::run).                                               *)

HolderElse == <<setting, file, cfg, live, sunk, hup, starts, pidfile, cliVars>>

StartHolder(h) ==
    /\ holder[h] = "off" /\ spawns < MaxHolders
    /\ holder' = [holder EXCEPT ![h] = "probe"] /\ spawns' = spawns + 1
    /\ UNCHANGED <<HolderElse, pc, conn, sock, kills>>

Probe(h) ==
    /\ holder[h] = "probe"
    /\ holder' = [holder EXCEPT ![h] = IF Reachable THEN "off" ELSE "remove"]
    /\ UNCHANGED <<HolderElse, pc, conn, sock, spawns, kills>>

MutantRemoved == sock
Removed == None

Remove(h) ==
    /\ holder[h] = "remove" /\ holder' = [holder EXCEPT ![h] = "bind"] /\ sock' = Removed
    /\ UNCHANGED <<HolderElse, pc, conn, spawns, kills>>

(* A name that is taken fails the bind. *)
Bind(h) ==
    /\ holder[h] = "bind"
    /\ IF sock = None THEN sock' = h /\ holder' = [holder EXCEPT ![h] = "listen"]
                      ELSE holder' = [holder EXCEPT ![h] = "off"] /\ UNCHANGED sock
    /\ UNCHANGED <<HolderElse, pc, conn, spawns, kills>>

(* Killed, or told to stop: then it removes whatever is at the path. Its       *)
(* connections end.                                                            *)
HolderStops(h) ==
    /\ holder[h] # "off" /\ kills < MaxKills /\ kills' = kills + 1
    /\ holder' = [holder EXCEPT ![h] = "off"]
    /\ \/ UNCHANGED sock
       \/ holder[h] = "listen" /\ sock' = None
    /\ conn' = [p \in Proxies |-> IF conn[p] = h THEN None ELSE conn[p]]
    /\ UNCHANGED <<HolderElse, pc, spawns>>

-----------------------------------------------------------------------------
ProxyStep(p) ==
    \/ Open(p) \/ Lock(p) \/ WritePid(p) \/ Load(p) \/ Connect(p) \/ TakeReload(p) \/ HolderLost(p)
    \/ Reload(p) \/ RemovePidfile(p) \/ End(p) \/ \E h \in Holders : Spawn(p, h)
CliStep(c) == WriteText(c) \/ ReadPid(c) \/ Hup(c)
HolderStep(h) == Probe(h) \/ Remove(h) \/ Bind(h)
World ==
    \/ \E p \in Proxies : Start(p) \/ PadComes(p) \/ PadGoes(p) \/ Exit(p) \/ Killed(p)
    \/ \E c \in Clis : Truncate(c) \/ ResetOverride(c) \/ Edit(c)
    \/ \E h \in Holders : StartHolder(h) \/ HolderStops(h)

Next ==
    \/ \E p \in Proxies : ProxyStep(p)
    \/ \E c \in Clis : CliStep(c)
    \/ \E h \in Holders : HolderStep(h)
    \/ World

Spec == Init /\ [][Next]_vars

(* A process that can get on does. *)
FairSpec ==
    /\ Spec
    /\ \A p \in Proxies : WF_vars(ProxyStep(p))
    /\ \A c \in Clis : WF_vars(CliStep(c))
    /\ \A h \in Holders : WF_vars(HolderStep(h))

-----------------------------------------------------------------------------
(* Properties.                                                                 *)

Running(p) == pc[p] \in Locking /\ ~ShuttingDown(p)

(* "A second proxy instance fails the lock and exits" (proxy.rs:112-115),      *)
(* whatever is killed when, and whatever a dead proxy's pidfile says.          *)
Exclusive == \A p, q \in Proxies : Running(p) /\ Running(q) => p = q

Serving(p) == pc[p] \in {"serve", "reload"}

(* An override that is set while proxies start, serve, lose their pads and die *)
(* is what the serving proxy comes to, although SIGHUP reaches it by way of a  *)
(* file: either the command finds its pid or it starts from the new value.     *)
Followed ==
    <>[](override \in Values /\ \E p \in Proxies : Serving(p))
        => <>[](\A p \in Proxies : Serving(p) => live[p] = override)

(* A proxy that serves by another value than the override has been told, or     *)
(* will be (main.rs:98-115, proxy.rs:1357-1391): it has a reload to do, or a    *)
(* command that changed the file has not come to its SIGHUP yet and will send   *)
(* it to this proxy, not to a dead one whose pid the file still named.         *)
Owed(p) ==
    \/ hup[p]
    \/ \E c \in Clis : cli[c] \in {"text", "hup"} \/ (cli[c] = "kill" /\ target[c] = p)
ReloadOwed ==
    \A p \in Proxies : pc[p] = "serve" /\ override \in Values /\ live[p] # override => Owed(p)

(* A proxy with a pad comes to be served by a holder, whatever sockets dead    *)
(* and competing holders left behind.                                          *)
HolderComesUp == (\E p \in Proxies : pc[p] = "connect") ~> \A p \in Proxies : pc[p] # "connect"

(* "Apply changes with: mdrv-ds keymap reload" (deploy/conf/config.toml:6):    *)
(* what was applied stays applied.                                             *)
ReloadLasts ==
    <>[](override = "none" /\ \E p \in Proxies : Serving(p))
        => <>[](\A p \in Proxies : Serving(p) => live[p] = config)
=============================================================================
