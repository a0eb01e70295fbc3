------------------------------ MODULE Settings ------------------------------
(***************************************************************************)
(* How a server gets its settings: the container's entrypoint              *)
(* (deploy/docker-entrypoint.sh), the data directory of `ivory init' and   *)
(* `ivory run' (bin/ivory/src/config.rs, node.rs), and the server address  *)
(* that ivory-dev and the Python SDK choose.  A file is there or not ({}). *)
(* A start may be cut off after any step, or inside a write that truncates *)
(* the file before it fills it, which leaves the file empty.               *)
(***************************************************************************)
EXTENDS Integers, SequencesExt, TLC

Missing == {}
File(content) == {content}
Content(file) == CHOOSE c \in file : TRUE

\* A role as an operator writes it: a word, in any case, perhaps padded.
MasterWords == {"master", "validator", "producer"}
SlaveWords == {"slave", "follower"}

\* ServerRole::parse, which trims
ParseRole(text) ==
    IF text.word \in MasterWords THEN File("master")
    ELSE IF text.word \in SlaveWords THEN File("slave") ELSE Missing

\* the case of the entrypoint, which does not: anything else is a master
EntrypointRole(text) ==
    IF text.word \in SlaveWords /\ ~text.padded THEN "slave" ELSE "master"

P2pListen(env) ==
    IF env.p2p # "" THEN env.p2p
    ELSE IF EntrypointRole(env.role) = "master" THEN "port 9000" ELSE "any port"

\* NodeFileConfig::default and what init writes over it
DefaultConfig ==
    [chain_id |-> 1, rpc_addr |-> "local", p2p_listen |-> "local", bootstrap |-> "",
     interval |-> 2000, role |-> "master", allowlist |-> "", archive |-> TRUE, read |-> ""]

\* write_config
WrittenConfig(env) ==
    [chain_id |-> env.chain, rpc_addr |-> env.rpc, p2p_listen |-> P2pListen(env),
     bootstrap |-> env.bootstrap, interval |-> env.interval,
     role |-> EntrypointRole(env.role), allowlist |-> env.allowlist,
     archive |-> env.archive, read |-> env.read]

\* Mutant: the config written first, as if it were the least important.
InitConfigFirst == <<"init_config", "init_key", "init_genesis">>

\* init_datadir_with: the order of its writes
InitSteps == <<"init_key", "init_genesis", "init_config">>

\* install_overlays, then what the branch of the entrypoint does
Steps(disk, env) ==
    IF disk.config # Missing
    THEN <<"overlay_key", "overlay_genesis", "rpc_addr", "p2p_listen", "role", "bootstrap",
           "allowlist", "read">>
    ELSE IF env.keyFile # Missing /\ env.genesisFile # Missing
    THEN <<"overlay_key", "overlay_genesis", "write_config">>
    ELSE InitSteps \o <<"overlay_key", "overlay_genesis", "write_config">>

\* The genesis that install_overlays copies, {} when it copies none.
Overlay(env) ==
    IF env.genesisFile # Missing THEN env.genesisFile
    ELSE IF EntrypointRole(env.role) = "slave" THEN env.shared ELSE Missing

\* The wait for the shared genesis that ends in a timeout.
TimesOut(env) ==
    EntrypointRole(env.role) = "slave" /\ env.genesisFile = Missing /\ env.shared = Missing

\* One step; `fresh' is the key a run of init generates.
Step(disk, env, fresh, step) ==
    CASE step = "init_key" -> [disk EXCEPT !.key = File(fresh)]
      [] step = "init_genesis" -> [disk EXCEPT !.genesis = File(fresh)]
      [] step = "init_config" ->
            [disk EXCEPT !.config = File([DefaultConfig EXCEPT
                !.role = EntrypointRole(env.role),
                !.bootstrap = IF EntrypointRole(env.role) = "slave" THEN env.bootstrap ELSE ""])]
      [] step = "overlay_key" ->
            IF env.keyFile = Missing THEN disk ELSE [disk EXCEPT !.key = env.keyFile]
      [] step = "overlay_genesis" ->
            IF Overlay(env) = Missing THEN disk ELSE [disk EXCEPT !.genesis = Overlay(env)]
      [] step = "write_config" -> [disk EXCEPT !.config = File(WrittenConfig(env))]
      [] step = "read" ->     \* upserted only when the variable is set
            IF env.read = "" THEN disk
            ELSE [disk EXCEPT !.config = File((step :> env.read) @@ Content(@))]
      [] OTHER ->             \* upsert_toml of one key, added when it is not there
            [disk EXCEPT !.config = File((step :> WrittenConfig(env)[step]) @@ Content(@))]

\* The files that a step truncates and writes again (fs::write, cat >, cp);
\* upsert_toml writes another file and renames it.
Truncates(env, step) ==
    CASE step = "init_key" -> {"key"}
      [] step = "init_genesis" -> {"genesis"}
      [] step \in {"init_config", "write_config"} -> {"config"}
      [] step = "overlay_key" -> IF env.keyFile = Missing THEN {} ELSE {"key"}
      [] step = "overlay_genesis" -> IF Overlay(env) = Missing THEN {} ELSE {"genesis"}
      [] OTHER -> {}

Emptied == [key |-> File(""), genesis |-> File(""), config |-> File(<<>>)]

\* the disk when a step is cut off inside its write
Torn(disk, env, step) ==
    [f \in DOMAIN disk |-> IF f \in Truncates(env, step) THEN Emptied[f] ELSE disk[f]]

\* A start of the container, cut off after `done' steps, perhaps inside the next
\* one, or run to its end; a timeout ends it at the step that waits.
StartUpTo(disk, env, fresh, done, torn) ==
    LET steps == Steps(disk, env)
        wait == SelectInSeq(steps, LAMBDA s : s = "overlay_genesis")
        last == IF TimesOut(env) /\ done >= wait THEN wait - 1
                ELSE IF done < Len(steps) THEN done ELSE Len(steps)
        reached == FoldLeft(LAMBDA d, s : Step(d, env, fresh, s), disk, SubSeq(steps, 1, last))
    IN  IF torn /\ last < Len(steps) THEN Torn(reached, env, steps[last + 1]) ELSE reached

Start(disk, env, fresh) == StartUpTo(disk, env, fresh, Len(Steps(disk, env)), FALSE)

\* the fields of NodeFileConfig that have no serde default
Required == {"chain_id", "rpc_addr", "p2p_listen", "interval"}

\* load_datadir: every file must be there and parse
Loads(disk) ==
    /\ \A f \in DOMAIN disk : disk[f] # Missing
    /\ disk.genesis # Emptied.genesis /\ disk.key # Emptied.key
    /\ Required \subseteq DOMAIN Content(disk.config)

\* Mutant: the key alone decides.
ProducesWithKey(disk) == disk.key = disk.genesis

\* is_producer of run_node: genesis names its validator's address
IsProducer(disk) == Content(disk.config).role = "master" /\ disk.key = disk.genesis

EmptyDisk == [key |-> Missing, genesis |-> Missing, config |-> Missing]
-----------------------------------------------------------------------------
\* The server address.  A text is a name, perhaps none, perhaps followed by
\* slashes and then by blanks; one that is not set is the empty text.

Url(name, slash, blank) == [name |-> name, slash |-> slash, blank |-> blank]
NoUrl == Url("", FALSE, FALSE)
Local == Url("local", FALSE, FALSE)

\* trim and strip
Trim(url) == [url EXCEPT !.blank = FALSE]

\* trim_end_matches('/') and rstrip("/"), which blanks stop
StripSlashes(url) == IF url.blank THEN url ELSE [url EXCEPT !.slash = FALSE]

\* resolve_rpc of ivory-dev
RustResolve(flag, public, publicUrl, cfg, env) ==
    IF flag # NoUrl THEN File(StripSlashes(flag))
    ELSE IF public THEN {StripSlashes(Trim(publicUrl))} \ {NoUrl}
    ELSE IF cfg # NoUrl THEN File(StripSlashes(cfg))
    ELSE IF env # NoUrl THEN File(StripSlashes(env)) ELSE File(Local)

\* Mutant: the environment before the chain the caller asked for.
PythonResolveEnvFirst(flag, public, publicUrl, env) ==
    IF flag # NoUrl THEN File(StripSlashes(flag))
    ELSE IF Trim(env) # NoUrl THEN File(StripSlashes(Trim(env)))
    ELSE IF public THEN {StripSlashes(url) : url \in {Trim(publicUrl)} \ {NoUrl}}
    ELSE File(Local)

\* resolve_rpc_url of the SDK
PythonResolve(flag, public, publicUrl, env) ==
    IF flag # NoUrl THEN File(StripSlashes(flag))
    ELSE IF public THEN {StripSlashes(url) : url \in {Trim(publicUrl)} \ {NoUrl}}
    ELSE IF Trim(env) # NoUrl THEN File(StripSlashes(Trim(env))) ELSE File(Local)
-----------------------------------------------------------------------------
\* The deploy command of ivory-dev.  A path is a sequence of names, absolute or
\* not; tomls maps the directories that hold an ivory.toml to its contents; a
\* flag, a variable or an entry that is not there is {}.

Path(abs, names) == [abs |-> abs, names |-> names]
Against(base, path) == IF path.abs THEN path.names ELSE base \o path.names

\* find_project(cwd).unwrap_or(cwd): the nearest directory with an ivory.toml
FindProject(tomls, cwd) ==
    LET above == {n \in 0 .. Len(cwd) : SubSeq(cwd, 1, n) \in DOMAIN tomls}
    IN  IF above = {} THEN cwd
        ELSE SubSeq(cwd, 1, CHOOSE n \in above : \A m \in above : m <= n)

LoadDevConfig(tomls, project) ==
    IF project \in DOMAIN tomls THEN tomls[project] ELSE [rpc |-> NoUrl, key |-> Missing]

\* Mutant: the key of ivory.toml looked for where the command was run.
ResolveKeyHere(args, env, cfg, project, cwd) ==
    IF args.key # Missing THEN File(Against(cwd, Content(args.key)))
    ELSE IF args.dataDir # Missing
    THEN File(Append(Against(cwd, Content(args.dataDir)), "validator.key"))
    ELSE IF env # Missing THEN File(Against(cwd, Content(env)))
    ELSE {Against(cwd, p) : p \in cfg.key}

ResolveKeyPath(args, env, cfg, project, cwd) ==
    IF args.key # Missing THEN File(Against(cwd, Content(args.key)))
    ELSE IF args.dataDir # Missing
    THEN File(Append(Against(cwd, Content(args.dataDir)), "validator.key"))
    ELSE IF env # Missing THEN File(Against(cwd, Content(env)))
    ELSE {Against(project, p) : p \in cfg.key}

\* what deploy signs with, deploys and installs to; Missing is an error
DevDeploy(tomls, args, env, cwd) ==
    LET project == FindProject(tomls, cwd)
        cfg == LoadDevConfig(tomls, project)
    IN  {[rpc |-> RustResolve(NoUrl, FALSE, NoUrl, cfg.rpc, NoUrl), key |-> key,
          manifest |-> project \o <<"contracts", "tracker.yaml">>,
          catalog |-> IF args.dataDir = Missing THEN project \o <<"contracts">>
                      ELSE Append(Against(cwd, Content(args.dataDir)), "contracts")] :
            key \in ResolveKeyPath(args, env, cfg, project, cwd)}
-----------------------------------------------------------------------------
\* A container that was cut off anywhere in its first start and is started again
\* comes up as configured (docker-entrypoint.sh), unless the cut fell inside a
\* write of config.toml, which every later start then takes for a configuration
\* and none can load: all files are there, the role, addresses, bootstrap and
\* allowlist are the environment's, the genesis is the one handed to it, a
\* master with its own genesis holds the validator's key, and a third start
\* changes nothing.  Only the settings that are written once, such as CHAIN_ID,
\* keep the defaults of init when the cut came between init and write_config.
RestartConfigures(env, cut, torn) ==
    LET first == StartUpTo(EmptyDisk, env, "key1", cut, torn)
        second == Start(first, env, "key2")
        config == Content(second.config)
        written == WrittenConfig(env)
    IN  ~TimesOut(env) =>
          /\ Loads(second) <=> first.config # Emptied.config
          /\ \A k \in {"role", "rpc_addr", "p2p_listen", "bootstrap", "allowlist"} :
                config[k] = written[k]
          /\ Loads(second) => config.read = written.read
          /\ first.config \in {Missing, File(written)} => config = written
          /\ env.keyFile # Missing => second.key = env.keyFile
          /\ Overlay(env) # Missing => second.genesis = Overlay(env)
          /\ env.keyFile = Missing /\ Overlay(env) = Missing => second.key = second.genesis
          /\ Start(second, env, "key3") = second

\* Only a master produces, even when a slave was handed the validator's key
\* (node.rs is_producer).  A master produces exactly when it was handed neither
\* key nor genesis, or both of the same validator: one handed the key alone
\* comes up with the genesis that init wrote for another key.  The entrypoint
\* and the binary read the same role from any spelling that the binary accepts,
\* unless the text is padded.
RolesAgree(env) ==
    LET disk == Start(EmptyDisk, env, "key1")
        role == EntrypointRole(env.role)
    IN  /\ ParseRole(env.role) # Missing /\ ~env.role.padded => ParseRole(env.role) = File(role)
        /\ Loads(disk) /\ IsProducer(disk) => role = "master"
        /\ role = "master" =>
              Loads(disk) /\ (IsProducer(disk) <=> env.keyFile = env.genesisFile)

\* The SDK and ivory-dev talk to the same server in the same environment when
\* ivory.toml names none, but for two texts: an IVORY_RPC_URL with blanks around
\* it, which only the SDK trims, and an IVORY_PUBLIC_RPC of slashes alone, which
\* only ivory-dev refuses (client.py resolve_rpc_url, ivory-dev resolve_rpc).
ResolversAgree(flag, public, publicUrl, env) ==
    PythonResolve(flag, public, publicUrl, env) = RustResolve(flag, public, publicUrl, NoUrl, env)
        <=> \/ flag # NoUrl
            \/ public /\ (publicUrl.name # "" \/ ~publicUrl.slash)
            \/ ~public /\ ~env.blank

\* ivory-dev deploy means the same in every directory of a project (find_project,
\* resolve_key_path): the server, key, package and catalog do not depend on where
\* it is run, unless the caller gave a relative path; and a data directory gives
\* both the key and the catalog.
DeploysAlike(tomls, args, env, cwd) ==
    LET project == FindProject(tomls, cwd)
        relative == \E p \in args.key \cup args.dataDir \cup env : ~p.abs
    IN  /\ ~relative => DevDeploy(tomls, args, env, cwd) = DevDeploy(tomls, args, env, project)
        /\ \A d \in DevDeploy(tomls, args, env, cwd) :
              args.dataDir # Missing /\ args.key = Missing => Front(d.catalog) = Front(d.key)
=============================================================================
