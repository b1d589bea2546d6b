------------------------------ MODULE AppConfig ------------------------------
(***************************************************************************)
(* The configuration (src/app/app_config.c): defaults, config files, the    *)
(* command line and the range checks, and POST /api/config/reload           *)
(* (src/app/app_server.c), which reads the file again while the server runs. *)
(* A text is its spelling, its number if it is all digits (-1 if not) and its *)
(* length.  A word of the command line is an option with its value, an option *)
(* whose value is the next word, a flag, a request for help, or other text.   *)
(***************************************************************************)
EXTENDS Integers, Sequences, SequencesExt, FiniteSetsExt

CONSTANTS UintMax,     \* 0xFFFFFFFF
          Argvs,       \* the command lines that are parsed
          Starts,      \* the ones among them a server is started with
          Files,       \* path |-> lines, at startup
          FileTexts    \* what the operator may put into the file later

VARIABLES config,      \* server->config without its path
          config_path, \* and its path, Empty for none
          file         \* the lines now in that file

Word(w) == [w |-> w, n |-> -1, len |-> 4]
Num(n) == [w |-> IF n = 0 THEN "0" ELSE IF n = 1 THEN "1" ELSE "digits", n |-> n, len |-> 3]
Empty == [w |-> "", n |-> -1, len |-> 0]

app_config_defaults ==
    [source |-> Word("v4l2"), device |-> Word("/dev/video0"), rpicam_bin |-> Empty,
     listen |-> Word("0.0.0.0"), encoder |-> Word("auto"), mdns_name |-> Word("camstream"),
     width |-> 640, height |-> 480, fps |-> 30, bitrate_kbps |-> 2500,
     keyframe_seconds |-> 2, http_port |-> 8080, udp_port |-> 50000,
     mdns_port |-> 5353, mdns |-> TRUE, verbose |-> FALSE]

Strings == [device |-> 256, rpicam_bin |-> 256, listen |-> 64, encoder |-> 64, mdns_name |-> 64]
Numbers == {"width", "height", "fps", "bitrate_kbps", "keyframe_seconds"}
Ports == {"http_port", "udp_port", "mdns_port"}
Switches == {"mdns", "verbose"}
Keys == DOMAIN app_config_defaults

-----------------------------------------------------------------------------
(* app_config_set_key: whether a value is well formed, and what it sets *)

copy_string(value, capacity) == value.len # 0 /\ value.len < capacity
parse_source_kind(value) == value \in {Word(w) : w \in {"v4l2", "csi", "stdin", "test"}}
parse_unsigned(value) == value.n \in 0..UintMax
On(key) == {"1", "true", "yes"} \cup IF key = "mdns" THEN {"on"} ELSE {}
Off(key) == {"0", "false", "no"} \cup IF key = "mdns" THEN {"off"} ELSE {}

WellFormed(key, value) ==
    \/ key = "source" /\ parse_source_kind(value)
    \/ key \in DOMAIN Strings /\ copy_string(value, Strings[key])
    \/ key = "mdns_name" /\ value = Empty
    \/ key \in Numbers /\ parse_unsigned(value)
    \/ key \in Ports /\ parse_unsigned(value) /\ value.n \in 1..65535
    \/ key \in Switches /\ value.w \in On(key) \cup Off(key)

\* An empty mdns_name turns the responder off and leaves the name.
app_config_set_key(cfg, key, value) ==
    CASE key = "mdns_name" /\ value = Empty -> [cfg EXCEPT !.mdns = FALSE]
      [] key \in Numbers \cup Ports -> [cfg EXCEPT ![key] = value.n]
      [] key \in Switches -> [cfg EXCEPT ![key] = value.w \in On(key)]
      [] OTHER -> [cfg EXCEPT ![key] = value]

IsLabel(name) == name.len \in 1..63 /\ name.w \notin {"-cam", "cam.pi"}

app_config_validate(cfg) ==
    /\ \A side \in {cfg.width, cfg.height} : side \in 16..4096 /\ side % 2 = 0
    /\ cfg.fps \in 1..120
    /\ cfg.bitrate_kbps \in 100..100000
    /\ cfg.keyframe_seconds \in 1..60
    /\ cfg.http_port # 0 /\ cfg.udp_port # 0
    /\ cfg.listen # Empty /\ cfg.encoder # Empty
    /\ cfg.mdns => IsLabel(cfg.mdns_name)

-----------------------------------------------------------------------------
(* Parsing is a fold over lines and words.  Its state is the configuration, the *)
(* path, the option whose value comes next, and how it stands.             *)

Start(cfg, path) == [cfg |-> cfg, path |-> path, want |-> "none", status |-> "ok"]

\* One line of a file: "key = value", where neither may be empty.
Line(st, line) ==
    IF st.status # "ok" THEN st
    ELSE IF line.value # Empty /\ WellFormed(line.key, line.value)
         THEN [st EXCEPT !.cfg = app_config_set_key(@, line.key, line.value)]
         ELSE [st EXCEPT !.status = "bad"]

\* The lines before a bad one stay applied.
app_config_load_file(st, path, disk) ==
    IF path = Empty THEN st
    ELSE IF path \notin DOMAIN disk \/ ~copy_string(path, 256) THEN [st EXCEPT !.status = "bad"]
         ELSE FoldLeft(Line, [st EXCEPT !.path = path], disk[path])

AsText(word) == IF word.do = "text" THEN word.value ELSE Word("--option")

\* The paths of pass one, in order: every --config that has a value.
ConfigPaths(argv) ==
    LET at == {i \in DOMAIN argv : /\ argv[i].key = "config"
                                   /\ argv[i].do = "take" => i < Len(argv)}
        path(i) == IF argv[i].do = "set" THEN argv[i].value ELSE AsText(argv[i + 1])
    IN [k \in 1..Cardinality(at) |-> path(SetToSortSeq(at, <)[k])]

\* The first file that cannot be read ends it.
LoadFiles(st, argv) ==
    FoldLeft(LAMBDA acc, path : IF acc.status = "ok"
                                THEN app_config_load_file(acc, path, Files) ELSE acc,
             st, ConfigPaths(argv))

\* A value of --config was used in pass one.
Take(st, key, value) ==
    IF key = "config" THEN [st EXCEPT !.want = "none"]
    ELSE IF WellFormed(key, value)
         THEN [st EXCEPT !.want = "none", !.cfg = app_config_set_key(@, key, value)]
         ELSE [st EXCEPT !.status = "bad"]

\* The table of options that take a value.
Options == (Keys \ {"verbose"}) \cup {"config"}

\* A word where an option is expected.
Option(st, word) ==
    CASE word.do = "help" -> [st EXCEPT !.status = "help"]
      [] word.do = "flag" -> Take(st, word.key, word.value)
      [] word.do = "set" /\ word.key \in Options -> Take(st, word.key, word.value)
      [] word.do = "take" /\ word.key \in Options -> [st EXCEPT !.want = word.key]
      [] OTHER -> [st EXCEPT !.status = "bad"]

Argument(st, word) ==
    IF st.status # "ok" THEN st
    ELSE IF st.want # "none" THEN Take(st, st.want, AsText(word)) ELSE Option(st, word)

ReadOptions(st, argv) ==
    LET end == FoldLeft(Argument, st, argv)
    IN IF end.status = "ok" /\ end.want # "none" THEN [end EXCEPT !.status = "bad"] ELSE end

\* Slip: the files are read when the options have been.
MutPasses(argv) ==
    LoadFiles(ReadOptions(Start(app_config_defaults, Empty), argv), argv)
Passes(argv) ==
    LET loaded == LoadFiles(Start(app_config_defaults, Empty), argv)
    IN IF loaded.status = "ok" THEN ReadOptions(loaded, argv) ELSE loaded

app_config_parse(argv) ==
    LET end == Passes(argv)
    IN IF end.status = "ok" /\ ~app_config_validate(end.cfg)
       THEN [end EXCEPT !.status = "bad"] ELSE end

\* main: a server runs only with a configuration that was accepted.
Booted == {st \in {app_config_parse(argv) : argv \in Starts} : st.status = "ok"}

ConfigInit ==
    \E st \in Booted :
        /\ config = st.cfg
        /\ config_path = st.path
        /\ file = IF st.path = Empty THEN <<>> ELSE Files[st.path]

-----------------------------------------------------------------------------
(* handle_config_reload *)

\* Slip: keys the file does not name keep the value they have.
MutReloadBase == config
ReloadBase == app_config_defaults

Candidate == app_config_load_file(Start(ReloadBase, config_path), config_path,
                                  [p \in {config_path} |-> file])

\* apply_runtime_config: the bitrate goes to the encode worker, if there is one.
Applied(cand, worker) ==
    {k \in {"bitrate_kbps", "verbose"} : cand[k] # config[k] /\ (k = "bitrate_kbps" => worker)}
RestartRequired(cand, worker) == {k \in Keys : cand[k] # config[k]} \ Applied(cand, worker)

\* What is answered: 400, or 200 and the two lists.
ReloadReply(worker) ==
    IF Candidate.status # "ok" \/ ~app_config_validate(Candidate.cfg)
    THEN [status |-> 400, applied |-> {}, restart_required |-> {}]
    ELSE [status |-> 200, applied |-> Applied(Candidate.cfg, worker),
          restart_required |-> RestartRequired(Candidate.cfg, worker)]

Reload(worker) ==
    /\ config_path # Empty
    /\ config' = [k \in Keys |-> IF k \in ReloadReply(worker).applied
                                 THEN Candidate.cfg[k] ELSE config[k]]
    /\ UNCHANGED <<config_path, file>>

\* The operator saves another version of the file.
EditFile ==
    /\ config_path # Empty
    /\ file' \in FileTexts
    /\ UNCHANGED <<config, config_path>>

-----------------------------------------------------------------------------
(* What a sequence of settings asks for: the last one of each key. *)

Sets(key, line) == line.key = key \/ (key = "mdns" /\ line.key = "mdns_name" /\ line.value = Empty)

Effective(lines) ==
    [key \in Keys |->
       LET at == {i \in DOMAIN lines : Sets(key, lines[i])
                                       /\ (key = "mdns_name" => lines[i].value # Empty)}
       IN IF at = {} THEN app_config_defaults[key]
          ELSE app_config_set_key(app_config_defaults, lines[Max(at)].key,
                                  lines[Max(at)].value)[key]]

\* The settings of a command line, for words that are options or their values.
Settings(argv) ==
    LET value(i) == IF argv[i].do = "take" THEN argv[i + 1].value ELSE argv[i].value
        at == {i \in DOMAIN argv : argv[i].do # "text" /\ argv[i].key # "config"}
        order == SetToSortSeq(at, <)
    IN [k \in DOMAIN order |-> [key |-> argv[order[k]].key, value |-> value(order[k])]]

Tidy(argv) ==
    \A i \in DOMAIN argv :
        /\ argv[i].do # "help"
        /\ argv[i].do = "text" <=> i > 1 /\ argv[i - 1].do = "take"
        /\ argv[i].do = "take" => i < Len(argv)
=============================================================================
