----------------------------- MODULE Installer -----------------------------
(***************************************************************************)
(* The installer script (install.sh): install, modify, upgrade and         *)
(* uninstall as sequences of steps on what outlives the script: the        *)
(* binary, the configuration file, the service definition, the firewall    *)
(* rules and the process.  Steps fail as the script lets them fail, and    *)
(* between any two the script may be cut off (the terminal may well be a   *)
(* connection through the proxy) or the machine restarted.                 *)
(*                                                                         *)
(* The definition is overwritten in place: tee empties it and fills it,    *)
(* and what else it needs is done afterwards, one command after the other. *)
(*                                                                         *)
(* The configuration file is a sequence of lines that two programs read,   *)
(* the script and the server (Config), and that the administrator edits.   *)
(* Three of its keys stand for all; the dialogs are the choice of the      *)
(* operation and of its settings.                                          *)
(***************************************************************************)
EXTENDS Config

CONSTANTS Ports,      \* ports the proxy may be given
          Managers,   \* of "systemd", "openrc" and "sysvinit", those that there may be
          ByFile,     \* the service definition of create_service: --config
          Torn,       \* an empty definition: tee has opened it and not filled it
          Marred,     \* a text with a carriage return
          MaxMishaps  \* bound: after so many, no operation is begun

VARIABLES firewall,  \* "port" (firewalld, ufw, iptables), "table" (nftables) or "none"
          manager,   \* the service manager
          binary,    \* what the binary supports, see Versions; 0 when there is none
          config,    \* the lines of CONFIG_FILE, or None
          service,   \* ByFile, the settings in the arguments of a legacy service, Torn, or None
          lacks,     \* what the definition still lacks, see Placeholders and Marks
          running,   \* the process: its version and settings, or None
          rules,     \* the ports that rules of the script mention
          restart,   \* schedule_upgrade_restart has a restart under way
          op,        \* the operation under way, or None
          todo,      \* the steps it has left
          given,     \* the settings it establishes
          old,       \* the settings it found
          prepared,  \* what the binary in prepared_dir supports
          past,      \* history: how far the machine has left the beaten track, see Clean
          skipped    \* history: the last install went on without its binary

fixed   == <<firewall, manager>>
script  == <<op, todo, given, old>>
machine == <<binary, config, service, lacks, running, rules, restart>>
history == <<past, skipped>>
vars == <<fixed, machine, script, prepared, history>>

------------------------------------------------------------------------------
(* Settings and the configuration file.                                    *)
OwnDns   == <<Server(V4(<<9>>), 53)>>
Listed   == <<Entry(V4(<<2>>), None)>>
Typo     == <<Blank>>    \* no whitelist; nobody checks what is typed for one
NoNumber == <<>>

\* The texts that the script may hold in its variables: what may be typed, and
\* what may be found in the file.
Typed    == {Numeral(p) : p \in Ports}
Lists    == {<<>>, Listed, Typo}
Settings == [port : Typed, whitelist : Lists, dns_servers : {DefaultDns}]
Unset    == [port |-> Numeral(1080), whitelist |-> <<>>, dns_servers |-> DefaultDns]
Readings == [port : Typed \cup {Numeral(1080), NoNumber, Marred}, whitelist : Lists,
             dns_servers : {DefaultDns, OwnDns}]

\* A binary knows arguments only, --config, or --config and --dns-servers.
Versions == 1 .. 3

\* A line for the name servers, as the server sees it, and as the pattern of
\* prepare_binary does, which allows for less white space.
SetsDns(file) == \E i \in DOMAIN file : file[i].form = "assign" /\ file[i].key = "dns_servers"
GrepsDns(file) == \E i \in DOMAIN file : /\ file[i].form = "assign"
                                         /\ file[i].key = "dns_servers"
                                         /\ file[i].spelt # "wide"

\* Mutant: the first line for a key counts.
load_first(file) ==
  LET line(acc, l) ==
        IF acc = None \/ l.form = "skip" THEN acc
        ELSE IF l.form = "bad" \/ l.key \notin DOMAIN Unset THEN None
        ELSE IF acc[l.key] # Unset[l.key] THEN acc
        ELSE [acc EXCEPT ![l.key] = l.value]
  IN Along(line, Unset, file)

\* load_config_file over the defaults, None when the script gives up.  White
\* space is [:space:], one carriage return is removed, and no value is checked.
load_line(acc, l) ==
  IF acc = None \/ l.spelt = "wide" THEN None
  ELSE IF l.form = "skip" THEN acc
  ELSE IF l.form = "bad" \/ l.key \notin DOMAIN Unset THEN None
  ELSE [acc EXCEPT ![l.key] = IF l.spelt = "return" THEN Marred ELSE l.value]

load_config_file(file) == Along(load_line, Unset, file)

\* The lines of write_config_file, which refuses a text with a carriage return;
\* the default name servers are left out, for the sake of a binary that does
\* not know them.
Writable(s) == \A key \in DOMAIN s : s[key] # Marred

write_config_file(s) ==
  <<Assign("port", s.port), Assign("whitelist", s.whitelist)>>
    \o IF s.dns_servers = DefaultDns THEN <<>>
       ELSE <<Assign("dns_servers", s.dns_servers)>>

\* Bound: the files that there may be are those of the script and those that
\* are one line off.
EditLines ==
  {Comment, As(Comment, "foreign"), NoEquals, Assign("port", NoNumber),
   As(Assign("port", Numeral(1080)), "return"), Assign("dns_servers", OwnDns),
   As(Assign("dns_servers", OwnDns), "wide")}
    \cup {Assign("port", t) : t \in Typed}
OneOff(file) == {Append(file, l) : l \in EditLines}
                  \cup {RemoveAt(file, i) : i \in DOMAIN file}
Written == {write_config_file(s) : s \in {s \in Readings : Writable(s)}}
Files   == Written \cup UNION {OneOff(file) : file \in Written}

\* What the script and the server make of each file.
Loaded == [file \in Files |-> load_config_file(file)]
Served == [file \in Files |-> parse_config(<<Option("config", Word(1))>>, file)]

------------------------------------------------------------------------------
(* The service.                                                            *)
\* What sed has to fill in, and what has to be done for the definition, under
\* each manager.  ("enable" stands for daemon-reload as well.)
Placeholders == IF manager = "sysvinit" THEN {"program", "config"} ELSE {}
Marks        == IF manager = "systemd" THEN {"enable"} ELSE {"exec", "enable"}

\* get_current_config_auto: the settings of the installed service, None if the
\* script gives up.  An empty definition has no --config, and no arguments.
Current ==
  CASE service = None -> None
    [] service = Torn -> Unset
    [] service = ByFile -> IF "config" \in lacks \/ config = None THEN None
                           ELSE Loaded[config]
    [] OTHER -> service

\* Config::parse of the binary, as the service calls it.
Arguments(s) == <<Option("port", s.port)>>
                  \o IF s.whitelist = <<>> THEN <<>>
                     ELSE <<Option("whitelist", s.whitelist)>>
Parsed ==
  IF service = ByFile THEN Served[config]
                      ELSE parse_config(Arguments(service), None)

\* The definition is complete, but for the registration.
Whole == service \notin {None, Torn} /\ lacks \subseteq {"enable"}

\* What the definition says, or will say, finds what it needs: a binary that
\* knows the arguments, and a file that sets nothing that it does not know.
Equipped ==
  /\ binary \in Versions
  /\ service \in {Torn, ByFile} =>
       binary >= 2 /\ config # None /\ (SetsDns(config) => binary = 3)

Launched == IF Whole /\ Equipped /\ Parsed.ok
              THEN [version |-> binary, with |-> Parsed.value] ELSE None

\* The manager can stop and start the service.  systemd goes by the unit that
\* it has loaded, the others run the definition.
Controls ==
  manager = "systemd" \/ (service \notin {None, Torn} /\ "exec" \notin lacks)

\* What the server makes of settings that it is given as arguments.
Meant(s) == parse_config(
              Append(Arguments(s), Option("dns_servers", s.dns_servers)), None).value

\* The remove_firewall_* functions: nftables has a table of its own for the
\* rules, the others look for those of the port.
Removed(port) == IF firewall = "table" THEN {} ELSE rules \ {port}

\* The setup_firewall_* functions, which begin by removing.  (iptables has one
\* chain: what another port keeps there is only the jump to it.)
Added(port) == IF firewall = "none" THEN rules ELSE Removed(port) \cup {port}

\* The rules that belong to an installation with settings s.
Wanted(s) == IF s.whitelist # <<>> /\ firewall # "none" THEN {s.port} ELSE {}

\* create_service: tee opens and fills the definition; then sed, chmod and the
\* registration, as far as the manager has them.
create == <<"open", "tee", "program", "config", "exec", "enable">>

\* Mutant: the service is redefined before the new binary is in place.
StepsHasty(o) ==
  CASE o = "install" -> <<"prepare", "stage", "write">> \o create \o <<"guard", "start">>
    [] o = "modify" -> <<"write", "stop", "unguard">> \o create \o <<"guard", "restart">>
    [] o = "upgrade" -> <<"prepare", "write">> \o create \o <<"stage", "schedule">>
    [] o = "uninstall" -> <<"stop", "disable", "undefine", "unguard", "rmbinary", "rmconfig">>

\* The steps of main's install branch, modify, upgrade and uninstall.
Steps(o) ==
  CASE o = "install" -> <<"prepare", "stage", "write">> \o create \o <<"guard", "start">>
    [] o = "modify" -> <<"write", "stop", "unguard">> \o create \o <<"guard", "restart">>
    [] o = "upgrade" -> <<"prepare", "write", "stage">> \o create \o <<"schedule">>
    [] o = "uninstall" -> <<"stop", "disable", "undefine", "unguard", "rmbinary", "rmconfig">>

Operations == {"install", "modify", "upgrade", "uninstall"}

\* The script shows the server's defaults, and the names stand for nothing else.
ASSUME InstallerAssumption ==
  /\ Managers \subseteq {"systemd", "openrc", "sysvinit"}
  /\ \A key \in DOMAIN Unset : value_of(key, Unset[key]) = Ok(Defaults[key])
  /\ validate(Defaults)
  /\ \A s \in Readings, key \in DOMAIN Unset : s[key] # None
  /\ \A s \in Settings : Writable(s)
  /\ None \notin {ByFile, Torn, Word(1)} \cup Readings \cup Files
  /\ None \notin Operations /\ {ByFile, Torn} \cap Readings = {} /\ ByFile # Torn

\* Nothing special; the port or the whitelist was changed in the file, or the
\* rules were lost; install was chosen on an installed machine; n times a step
\* failed that is ignored, or an operation did not get to its end (Over + n).
Clean  == 0
Edited == 1
Over   == 2
Cut    == 3
Mark(event) == past' = IF event = Cut /\ past >= Cut THEN past + 1 ELSE Max({past, event})

\* An untouched machine, or one with a service of the time before --config.
Init ==
  /\ firewall \in {"port", "table", "none"} /\ manager \in Managers
  /\ config = None /\ lacks = {} /\ restart = FALSE
  /\ \/ binary = 0 /\ service = None /\ running = None /\ rules = {}
     \/ /\ binary = 1
        /\ service \in Settings
        /\ running = Launched
        /\ rules = Wanted(service)
  /\ op = None /\ todo = <<>> /\ given = None /\ old = None /\ prepared = 0
  /\ past = Clean /\ skipped = FALSE

------------------------------------------------------------------------------
(* The course of an operation.                                             *)
Begin(o, s) ==
  /\ op' = o /\ todo' = Steps(o) /\ given' = s
  /\ UNCHANGED <<fixed, machine, prepared, skipped>>

\* The restart of an upgrade, due within a second, is over by the next dialog.
Idle == todo = <<>> /\ ~restart /\ past < Over + MaxMishaps
Readable == service # None /\ Current # None

\* get_install_config starts from the defaults, whatever is installed.
BeginInstall(s) ==
  /\ Idle
  /\ old' = None
  /\ Mark(IF service # None THEN Over ELSE Clean)
  /\ Begin("install", s)

\* get_modify_config keeps what is not typed, dns_servers in any case; modify
\* wants a binary with --config.
BeginModify(s) ==
  /\ Idle /\ Readable /\ binary >= 2
  /\ s.port \in Typed \cup {Current.port}
  /\ s.dns_servers = Current.dns_servers
  /\ old' = Current
  /\ UNCHANGED past
  /\ Begin("modify", s)

BeginUpgrade ==
  /\ Idle /\ Readable
  /\ old' = Current
  /\ UNCHANGED past
  /\ Begin("upgrade", Current)

BeginUninstall ==
  /\ Idle /\ Readable
  /\ old' = Current
  /\ UNCHANGED past
  /\ Begin("uninstall", Current)

Due(step) == todo # <<>> /\ Head(todo) = step

Proceed ==
  /\ todo' = Tail(todo)
  /\ IF Len(todo) = 1 THEN op' = None /\ given' = None /\ old' = None
                      ELSE UNCHANGED <<op, given, old>>
  /\ UNCHANGED fixed

\* The script is gone; that matters once the first step is done.
Leave ==
  /\ todo' = <<>> /\ op' = None /\ given' = None /\ old' = None
  /\ prepared' = 0
  /\ UNCHANGED <<fixed, skipped>>

Interrupted == IF todo # <<>> /\ todo # Steps(op) THEN Cut ELSE Clean

\* The script exits, or is cut off.
Exit == Leave /\ Mark(Interrupted)

------------------------------------------------------------------------------
(* The steps.                                                              *)
\* prepare_binary: the release is fetched and asked what it supports; a
\* configuration file that sets dns_servers counts, in use or not.
Prepare(v) ==
  /\ Due("prepare") /\ v >= 2
  /\ config # None /\ GrepsDns(config) => v = 3
  /\ prepared' = v
  /\ Proceed
  /\ UNCHANGED <<machine, history>>

\* No release, or not one that will do.
PrepareFails ==
  /\ Due("prepare")
  /\ Exit
  /\ UNCHANGED machine

\* install_prepared_binary: a copy beside the old binary is moved over it.
Stage ==
  /\ Due("stage")
  /\ binary' = prepared /\ prepared' = 0 /\ skipped' = FALSE
  /\ Proceed
  /\ UNCHANGED <<config, service, lacks, running, rules, restart, past>>

StageFails ==
  /\ Due("stage")
  /\ Exit
  /\ UNCHANGED machine

\* When not even the temporary file can be made the function returns 1, which
\* upgrade looks at and install does not.
StageSkipped ==
  /\ Due("stage") /\ op = "install"
  /\ prepared' = 0 /\ Mark(Cut) /\ skipped' = TRUE
  /\ Proceed
  /\ UNCHANGED machine

\* Mutant: a configuration file that is there already is kept.
WriteIfMissing ==
  /\ Due("write")
  /\ IF op = "upgrade" /\ config # None THEN UNCHANGED config
     ELSE Writable(given) /\ config' = write_config_file(given)
  /\ Proceed
  /\ UNCHANGED <<binary, service, lacks, running, rules, restart, prepared, history>>

\* write_config_file, by a temporary file and a move; upgrade leaves a file
\* that is in use as it is.
Write ==
  /\ Due("write")
  /\ IF op = "upgrade" /\ service = ByFile THEN UNCHANGED config
     ELSE Writable(given) /\ config' = write_config_file(given)
  /\ Proceed
  /\ UNCHANGED <<binary, service, lacks, running, rules, restart, prepared, history>>

WriteFails ==
  /\ Due("write")
  /\ Exit
  /\ UNCHANGED machine

\* stop_service_by_init, whose result nobody looks at.
Stop ==
  /\ Due("stop")
  /\ running' = IF Controls THEN None ELSE running
  /\ Proceed
  /\ UNCHANGED <<binary, config, service, lacks, rules, restart, prepared, history>>

\* Mutant: the rules are looked for at the new port.
UnguardNew ==
  /\ Due("unguard")
  /\ rules' = IF op = "modify" /\ old.whitelist = <<>> THEN rules
                ELSE Removed(given.port)
  /\ Proceed
  /\ UNCHANGED <<binary, config, service, lacks, running, restart, prepared, history>>

\* remove_firewall for the port found at the beginning; modify calls it if
\* there was a whitelist.
Unguard ==
  /\ Due("unguard")
  /\ rules' = IF op = "modify" /\ old.whitelist = <<>> THEN rules
                ELSE Removed(old.port)
  /\ Proceed
  /\ UNCHANGED <<binary, config, service, lacks, running, restart, prepared, history>>

\* tee empties the definition, whatever it was.  A new file is not executable,
\* and nothing is registered; an old one keeps its mode and registration.
Open ==
  /\ Due("open")
  /\ service' = Torn /\ lacks' = IF service = None THEN Marks ELSE lacks
  /\ Proceed
  /\ UNCHANGED <<binary, config, running, rules, restart, prepared, history>>

\* tee fills it; under SysVinit with placeholders.
Define ==
  /\ Due("tee")
  /\ service' = ByFile /\ lacks' = lacks \cup Placeholders
  /\ Proceed
  /\ UNCHANGED <<binary, config, running, rules, restart, prepared, history>>

\* tee fails, before or after it has emptied the definition.
DefineFails ==
  /\ Due("open") \/ Due("tee")
  /\ Exit
  /\ UNCHANGED machine

\* sed fills in a placeholder, chmod makes the definition executable, the
\* manager registers it; a step that the manager does not have does nothing.
Finish(step) ==
  /\ Due(step)
  /\ lacks' = lacks \ {step}
  /\ Proceed
  /\ UNCHANGED <<binary, config, service, running, rules, restart, prepared, history>>

\* Nobody looks at the results.
FinishFails(step) ==
  /\ Due(step) /\ step \in Placeholders \cup Marks
  /\ Mark(Cut)
  /\ Proceed
  /\ UNCHANGED <<machine, prepared, skipped>>

\* setup_firewall: nothing without a whitelist.
Guard ==
  /\ Due("guard")
  /\ rules' = IF given.whitelist # <<>> THEN Added(given.port) ELSE rules
  /\ Proceed
  /\ UNCHANGED <<binary, config, service, lacks, running, restart, prepared, history>>

\* Nobody looks at its result.
GuardFails ==
  /\ Due("guard") /\ given.whitelist # <<>>
  /\ Mark(Cut)
  /\ Proceed
  /\ UNCHANGED <<machine, prepared, skipped>>

\* start_service_by_init: systemd and OpenRC leave a service alone that runs.
Start ==
  /\ Due("start") /\ Controls
  /\ manager = "sysvinit" => running = None
  /\ running' = IF running = None THEN Launched ELSE running
  /\ Proceed
  /\ UNCHANGED <<binary, config, service, lacks, rules, restart, prepared, history>>

\* restart_service_by_init.
Restart ==
  /\ Due("restart") /\ Controls
  /\ running' = Launched
  /\ Proceed
  /\ UNCHANGED <<binary, config, service, lacks, rules, restart, prepared, history>>

StartFails ==
  /\ Due("start") \/ Due("restart")
  /\ Exit
  /\ UNCHANGED machine

\* schedule_upgrade_restart, and the restart, by a process of its own.  (When
\* the service manager refuses, that is as good as CutOff.)
Schedule ==
  /\ Due("schedule")
  /\ restart' = TRUE
  /\ Proceed
  /\ UNCHANGED <<binary, config, service, lacks, running, rules, prepared, history>>

ScheduledRestart ==
  /\ restart
  /\ restart' = FALSE
  /\ running' = IF Controls THEN Launched ELSE running
  /\ UNCHANGED <<fixed, binary, config, service, lacks, rules, script, prepared, history>>

\* remove_service_by_init, and the removal of the files.
Disable ==
  /\ Due("disable")
  /\ lacks' = lacks \cup {"enable"}
  /\ Proceed
  /\ UNCHANGED <<binary, config, service, running, rules, restart, prepared, history>>

Undefine ==
  /\ Due("undefine")
  /\ service' = None /\ lacks' = {}
  /\ Proceed
  /\ UNCHANGED <<binary, config, running, rules, restart, prepared, history>>

RemoveBinary ==
  /\ Due("rmbinary")
  /\ binary' = 0
  /\ Proceed
  /\ UNCHANGED <<config, service, lacks, running, rules, restart, prepared, history>>

RemoveConfig ==
  /\ Due("rmconfig")
  /\ config' = None
  /\ Proceed
  /\ UNCHANGED <<binary, service, lacks, running, rules, restart, prepared, history>>

------------------------------------------------------------------------------
(* What happens to the script and the machine.                             *)
\* The terminal is gone, and the script with it.
CutOff ==
  /\ todo # <<>>
  /\ Exit
  /\ UNCHANGED machine

\* The machine starts again, and the service if it is enabled.  firewalld and
\* ufw keep their rules; those of nftables and iptables may have been saved
\* (setup_firewall_nftables, persist_iptables_rules) or not.
Reboot ==
  /\ Leave
  /\ running' = IF "enable" \in lacks THEN None ELSE Launched
  /\ restart' = FALSE
  /\ rules' \in {rules, {}}
  /\ Mark(Max({Interrupted, IF rules' = rules THEN Clean ELSE Edited}))
  /\ UNCHANGED <<binary, config, service, lacks>>

\* The administrator adds or removes a line of the file, which may be wrong,
\* and restarts; a line for the name servers only for a binary that knows it
\* (docs/usage.md 54).  (Bound: one line off what the script has written.)
EditConfig ==
  /\ Idle /\ service = ByFile /\ Whole /\ Readable
  /\ config \in Written /\ config' \in OneOff(config)
  /\ UNCHANGED <<fixed, binary, service, lacks, rules, restart, script, prepared, skipped>>
  /\ Equipped' /\ running' = Launched'
  /\ Mark(IF Current' # None /\ Current' = [Current EXCEPT !.dns_servers = Current'.dns_servers]
            THEN Clean ELSE Edited)

Next ==
  \/ \E s \in Settings : BeginInstall(s)
  \/ \E s \in Readings : BeginModify(s)
  \/ BeginUpgrade \/ BeginUninstall
  \/ \E v \in Versions : Prepare(v)
  \/ PrepareFails
  \/ Stage \/ StageFails \/ StageSkipped
  \/ Write \/ WriteFails
  \/ Stop \/ Unguard
  \/ Open \/ Define \/ DefineFails
  \/ \E step \in {"program", "config", "exec", "enable"} : Finish(step) \/ FinishFails(step)
  \/ Guard \/ GuardFails
  \/ Start \/ Restart \/ StartFails
  \/ Schedule \/ ScheduledRestart
  \/ Disable \/ Undefine \/ RemoveBinary \/ RemoveConfig
  \/ CutOff \/ Reboot
  \/ EditConfig

Spec == Init /\ [][Next]_vars

------------------------------------------------------------------------------
(* The properties.                                                         *)
\* What the two readers of the file need not take for the same is left out.
Plain == config # None => \A i \in DOMAIN config : config[i].spelt = "plain"

\* Nothing that the server refuses is among the settings.
Acceptable ==
  IF service = ByFile THEN SoundLines(config)
                      ELSE service # None /\ SoundArgs(Arguments(service))

\* At every moment, and wherever an operation is cut off, a definition finds
\* the binary and the file that it needs, and no line that the binary does not
\* know; once it is whole the service starts, with the settings that the script
\* shows.  (install 1617-1642, modify, upgrade and uninstall by the order of
\* their steps.  A definition that is not whole is what create_service leaves
\* when it is cut off; the exception is an install that ignored the failure of
\* install_prepared_binary.)
ServiceStarts ==
  ~skipped /\ Plain =>
    /\ service # None => Equipped
    /\ Whole /\ Acceptable =>
         Launched = [version |-> binary, with |-> Meant(Current)]

\* The settings s are in force, or about to be: a whole definition says so, or
\* the file that it will refer to.
Keeps(s) ==
  IF Whole THEN Current = s
           ELSE config # None /\ Loaded[config] = s

\* An upgrade, to its end or cut off, loses none of the settings that it found,
\* also when it migrates a service of the old kind on a machine where an
\* earlier operation left a configuration file behind, and it touches neither
\* the rules nor the process (docs/usage.md 33).  (An upgrade that begins with
\* an empty definition has found the defaults.)
UpgradeHarmless ==
  [][op = "upgrade" =>
       /\ \A s \in {old} : Keeps(s) => Keeps(s)'
       /\ Reboot \/ UNCHANGED <<rules, running>>]_vars

\* Between operations that all got to their end the rules are those of the
\* current settings: none for a port that was given up (modify 1095-1129).
RulesFollow ==
  todo = <<>> /\ past = Clean =>
    rules = IF service = None THEN {} ELSE Wanted(Current)

\* Between operations that all got to their end the process is the installed
\* binary, it runs with the settings that the script shows, cleans up after and
\* writes back, as long as the server accepts the file, and there is none
\* otherwise: the two programs that read the file agree on what it says
\* (install.sh 72-97, config.rs 173-198), if its lines are plain.
ProcessCurrent ==
  todo = <<>> /\ ~restart /\ past < Over /\ Plain =>
    running = IF Acceptable THEN [version |-> binary, with |-> Meant(Current)] ELSE None

\* What uninstall asks to be confirmed (install.sh 1647): all files, the
\* configuration and the firewall rules are deleted, if all operations got to
\* their end and nobody has edited the file.
UninstallRemovesAll ==
  [][op = "uninstall" /\ todo = <<"rmconfig">> /\ op' = None /\ past' \in {Clean, Over} =>
       binary' = 0 /\ config' = None /\ service' = None /\ rules' = {}]_vars
=============================================================================
