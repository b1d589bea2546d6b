------------------------------- MODULE Runtime -------------------------------
(***************************************************************************)
(* The main thread of camstream with its configuration: it boots from a     *)
(* command line, supervises the pipeline, and reloads the config file on    *)
(* request between two rounds of its loop, whatever state the pipeline is   *)
(* in.  "rate" is the bitrate the encoder was opened with or has been told   *)
(* to change to.                                                            *)
(***************************************************************************)
EXTENDS Supervisor, AppConfig

VARIABLE rate

settings == <<config, config_path, file>>
all == <<vars, settings, rate>>

RuntimeInit == Init /\ ConfigInit /\ rate = 0

\* media_pipeline_start opens the encoder with the configuration of the moment.
RateOfEncoder ==
    IF pc = "start" /\ "encoder" \in built' \ built THEN config.bitrate_kbps ELSE rate

Pipeline(A) == A /\ rate' = RateOfEncoder /\ UNCHANGED settings

\* encoder_worker_request_bitrate refuses only when there is no worker.
HaveWorker == "encoder_worker" \in built

ConfigReload ==
    /\ pc = "loop" /\ ~Libpeer
    /\ Reload(HaveWorker)
    /\ rate' = IF "bitrate_kbps" \in ReloadReply(HaveWorker).applied
               THEN Candidate.cfg.bitrate_kbps ELSE rate
    /\ UNCHANGED vars

\* Only camstream reads the file again.
Edit == EditFile /\ pc = "loop" /\ ~Libpeer /\ UNCHANGED <<vars, rate>>

RuntimeNext == Pipeline(Next) \/ ConfigReload \/ Edit

RuntimeSpec ==
    /\ RuntimeInit /\ [][RuntimeNext]_all
    /\ WF_all(Pipeline(Main)) /\ WF_all(Pipeline(Tick))

-----------------------------------------------------------------------------
\* "command line options override the file regardless of order": a server that
\* starts from a command line of options and values has, for every key, the last
\* value given on the command line, else the last one of the files in the order
\* they are named, else the default; and it starts exactly if every option is
\* known, every setting well formed, every file is there and the result is in range
\* (app_config_parse).
SettingsAreLayered ==
    job = "boot" /\ built = {} /\ pc = "start" =>
      \A argv \in Argvs : Tidy(argv) =>
        LET end == app_config_parse(argv)
            there == \A k \in DOMAIN ConfigPaths(argv) : ConfigPaths(argv)[k] \in DOMAIN Files
            lines == FlattenSeq([k \in DOMAIN ConfigPaths(argv) |-> Files[ConfigPaths(argv)[k]]])
            wanted == Effective(lines \o Settings(argv))
            fine == /\ there
                    /\ \A i \in DOMAIN argv : argv[i].do \in {"set", "take"} => argv[i].key \in Options
                    /\ \A i \in DOMAIN lines : lines[i].value # Empty
                    /\ \A i \in DOMAIN (lines \o Settings(argv)) :
                         LET l == (lines \o Settings(argv))[i] IN WellFormed(l.key, l.value)
                    /\ app_config_validate(wanted)
        IN /\ end.status = "ok" <=> fine
           /\ fine => end.cfg = wanted

\* An encoder that is open works at the configured bitrate, or has been told to.
EncoderKeepsRate == "encoder" \in built => rate = config.bitrate_kbps

\* A reload answers for every key.  If the file is refused, nothing changes,
\* although lines before the bad one were read.  If it is taken, the running
\* configuration differs from what the file asks for exactly in the keys that are
\* listed as needing a restart, also when a key was deleted from the file, when
\* the command line had overridden it, or while the pipeline is down
\* (handle_config_reload, apply_runtime_config).  The encoder keeps to the
\* configured bitrate throughout, across rebuilds (EncoderKeepsRate).
ReloadTellsAll ==
    [][/\ EncoderKeepsRate'
       /\ ConfigReload =>
            LET reply == ReloadReply(HaveWorker)
                wanted == Effective(file)
                fine == /\ \A i \in DOMAIN file : /\ file[i].value # Empty
                                                  /\ WellFormed(file[i].key, file[i].value)
                        /\ app_config_validate(wanted)
            IN IF fine THEN /\ {k \in Keys : config'[k] # wanted[k]} = reply.restart_required
                            /\ {k \in Keys : config'[k] # config[k]} = reply.applied
               ELSE config' = config /\ reply.status = 400]_all
=============================================================================
