-------------------------------- MODULE Cli --------------------------------
(***************************************************************************)
(* Commands of the CLI, from the options on the command line to the call   *)
(* of the service, beside others that write the config file: cli and       *)
(* _apply_meta_global_params (_main.py), the shared steps of               *)
(* commands/_utils.py, and resolve_auth_mode (config_resolve.py).          *)
(***************************************************************************)
EXTENDS Config, CliCommands, Naturals

CONSTANTS
    InitialFiles,   \* what the file may say at first
    Invocations,    \* Invocations[p]: the command lines p may be
    MaxCommands,    \* MaxCommands[p]: bound of the commands p runs
    NotYet,         \* what has not been resolved or loaded
    DefaultMode     \* credential mode "default"

Words == Values \cup {NoValue, Junk}

\* What is typed and what is in the environment.
OptionSets == [workspace : Words, auth : Words, yes : BOOLEAN]
CommandLines ==
    [kind : CommandKinds, root : OptionSets, leaf : OptionSets, arg : Words,
     env : [workspace : Words, warehouse : Words, auth : Words],
     op : [key : Keys, value : Words]]

ASSUME CliAssumption ==
    /\ {"workspace", "warehouse", "auth_mode"} \subseteq Keys
    /\ InitialFiles \subseteq Contents \cup {Absent, Broken}
    /\ MaxCommands \in [Procs -> Nat]
    /\ NotYet \notin Words /\ NotYet \notin UserConfigs /\ NotYet # DefaultMode
    /\ \A p \in Procs : Invocations[p] \subseteq CommandLines

VARIABLES
    cmd,            \* the command line of each process and its environment
    mode,           \* CliContext.auth
    config,         \* CliContext._config
    ws, item,       \* the workspace and the item the command is for
    agreed,         \* the user has agreed to the prompt
    left,           \* the commands it may still run
    known           \* what the file has said since the command began (history)

cliVars == <<cmd, mode, config, ws, item, agreed, left>>
vars == <<configVars, cliVars, known>>

Kind(p) == cmd[p].kind

\* The same option after the subcommand wins over one before it.
Option(leaf, root) == IF leaf # NoValue THEN leaf ELSE root
Workspace(p) == Option(cmd[p].leaf.workspace, cmd[p].root.workspace)
Yes(p) == cmd[p].root.yes \/ cmd[p].leaf.yes

\* Where the body of the command begins.
Body(k) ==
    CASE k.scope \in {"item", "snapshot", "workspace", "argument"} -> "workspace"
      [] k.scope \in {"all", "none", "listing"} -> "connect"
      [] k.scope \in {"show", "set", "clear"} -> k.scope
      [] k.scope = "cache" -> "serve"

\* With its arguments resolved, and with its item found.
Resolved(k) ==
    CASE k.asks = "first" -> "ask"
      [] k.asks # "first" /\ k.scope = "listing" -> "serve"
      [] OTHER -> "connect"
Found(k) ==
    CASE k.asks \in {"shown", "typed"} -> "ask"
      [] k.asks \notin {"shown", "typed"} /\ k.scope = "listing" -> "workspace"
      [] OTHER -> "serve"
Agreed(k) ==
    CASE k.asks = "outset" -> Body(k)
      [] k.asks = "first" -> "connect"
      [] OTHER -> "serve"

CliOver == {"served", "refused", "aborted", "failed"} \cup ConfigOver

-----------------------------------------------------------------------------
Invoke(p) ==
    /\ pc[p] = "idle"
    /\ left[p] > 0
    /\ \E i \in Invocations[p] :
         /\ cmd' = [cmd EXCEPT ![p] = i]
         /\ op' = [op EXCEPT ![p] = i.op]
    /\ left' = [left EXCEPT ![p] = @ - 1]
    /\ Goto(p, "load")
    /\ UNCHANGED <<file, lock, got, draft, mode, config, ws, item, agreed>>

\* resolve_auth_mode, for the option before the subcommand.
RootMode(p) ==
    Option(cmd[p].root.auth,
           Option(cmd[p].env.auth, Option(got[p]["auth_mode"], DefaultMode)))

\* cli: the config is loaded for its auth_mode, and not kept.  An invalid
\* FABRIC_AUTH ends it; a leaf option then has its turn, which loads the config
\* once more without a use for it.
Begin(p) ==
    /\ pc[p] = "loaded"
    /\ mode[p] = NotYet
    /\ \/ /\ RootMode(p) = Junk
          /\ Goto(p, "refused")
          /\ UNCHANGED mode
       \/ /\ RootMode(p) # Junk
          /\ mode' = [mode EXCEPT ![p] = Option(cmd[p].leaf.auth, RootMode(p))]
          /\ Goto(p, IF Kind(p).scope = "all" /\ Workspace(p) # NoValue THEN "refused"
                     ELSE IF Kind(p).asks = "outset" THEN "ask" ELSE Body(Kind(p)))
    /\ UNCHANGED <<file, lock, op, got, draft, cmd, config, ws, item, agreed, left>>

\* CliContext.config, on first use.
LoadConfig(p) ==
    /\ config[p] = NotYet
    /\ Goto(p, "load")
    /\ UNCHANGED <<ws, item>>

\* The command goes on from where it needed the config.
KeepConfig(p) ==
    /\ pc[p] = "loaded"
    /\ mode[p] # NotYet
    /\ config' = [config EXCEPT ![p] = got[p]]
    /\ Goto(p, IF Body(Kind(p)) = "workspace" /\ ws[p] = NotYet THEN "workspace"
               ELSE IF Kind(p).scope = "item" /\ item[p] = NotYet THEN "item"
               ELSE IF Kind(p).scope = "show" THEN "show" ELSE "connect")
    /\ UNCHANGED <<file, lock, op, got, draft, cmd, mode, ws, item, agreed, left>>

\* The environment as the last word would undo what the user has just typed.
EnvironmentFirst(given, env) == Option(env, given)

GivenFirst(given, env) == Option(given, env)

\* What is given, then the environment, then the config, once that is loaded.
Told(p, given, env, key) ==
    IF GivenFirst(given, env) # NoValue THEN GivenFirst(given, env)
    ELSE IF config[p] = NotYet THEN NotYet ELSE config[p][key]

\* Nothing is told yet: the config is loaded, and without a word there it is a
\* UsageError.
Untold(p, v) ==
    /\ \/ v = NotYet /\ LoadConfig(p)
       \/ v = NoValue /\ Goto(p, "refused") /\ UNCHANGED <<ws, item>>
    /\ UNCHANGED <<file, lock, op, got, draft, cmd, mode, config, agreed, left>>

\* resolve_workspace and resolve_workspace_arg
ResolveWorkspace(p) ==
    /\ pc[p] = "workspace"
    /\ LET given == IF Kind(p).scope = "argument" THEN cmd[p].arg ELSE Workspace(p)
           v == Told(p, given, cmd[p].env.workspace, "workspace")
       IN \/ Untold(p, v)
          \/ /\ v \notin {NotYet, NoValue}
             /\ ws' = [ws EXCEPT ![p] = v]
             /\ item' = [item EXCEPT ![p] =
                            IF Kind(p).scope = "snapshot" THEN cmd[p].arg ELSE @]
             /\ Goto(p, IF Kind(p).scope = "item" THEN "item" ELSE Resolved(Kind(p)))
             /\ UNCHANGED <<file, lock, op, got, draft, cmd, mode, config, agreed, left>>

\* resolve_warehouse_arg
ResolveWarehouse(p) ==
    /\ pc[p] = "item"
    /\ LET v == Told(p, cmd[p].arg, cmd[p].env.warehouse, "warehouse")
       IN \/ Untold(p, v)
          \/ /\ v \notin {NotYet, NoValue}
             /\ item' = [item EXCEPT ![p] = v]
             /\ Goto(p, Resolved(Kind(p)))
             /\ UNCHANGED <<file, lock, op, got, draft, cmd, mode, config, ws, agreed,
                            left>>

\* build_http_client, which takes the retry knobs from the config too, and the
\* look-up of what the command is for.
Connect(p) ==
    /\ pc[p] = "connect"
    /\ \/ LoadConfig(p)
       \/ /\ config[p] # NotYet
          /\ \E place \in {Found(Kind(p)), "failed"} : Goto(p, place)
          /\ UNCHANGED <<ws, item>>
    /\ UNCHANGED <<file, lock, op, got, draft, cmd, mode, config, agreed, left>>

\* config show
Show(p) ==
    /\ pc[p] = "show"
    /\ \/ LoadConfig(p)
       \/ config[p] # NotYet /\ Goto(p, "serve") /\ UNCHANGED <<ws, item>>
    /\ UNCHANGED <<file, lock, op, got, draft, cmd, mode, config, agreed, left>>

\* confirm, confirm_destructive and the prompt of restore: --yes, or the user's
\* answer, or Ctrl-C.
Ask(p) ==
    /\ pc[p] = "ask"
    /\ \/ Yes(p) /\ Goto(p, Agreed(Kind(p))) /\ UNCHANGED agreed
       \/ /\ ~ Yes(p)
          /\ agreed' = [agreed EXCEPT ![p] = TRUE]
          /\ Goto(p, Agreed(Kind(p)))
       \/ ~ Yes(p) /\ Goto(p, "aborted") /\ UNCHANGED agreed
    /\ UNCHANGED <<file, lock, op, got, draft, cmd, mode, config, ws, item, left>>

\* The service call, and what the command prints.
Serve(p) ==
    /\ pc[p] = "serve"
    /\ \E place \in {"served", "failed"} : Goto(p, place)
    /\ UNCHANGED <<file, lock, op, got, draft, cliVars>>

\* The process is over, and what it kept in memory with it.
Exit(p) ==
    /\ pc[p] \in CliOver
    /\ Goto(p, "idle")
    /\ op' = [op EXCEPT ![p] = NotYet]
    /\ got' = [got EXCEPT ![p] = Unset]
    /\ draft' = [draft EXCEPT ![p] = Unset]
    /\ cmd' = [cmd EXCEPT ![p] = NotYet]
    /\ mode' = [mode EXCEPT ![p] = NotYet]
    /\ config' = [config EXCEPT ![p] = NotYet]
    /\ ws' = [ws EXCEPT ![p] = NotYet]
    /\ item' = [item EXCEPT ![p] = NotYet]
    /\ agreed' = [agreed EXCEPT ![p] = FALSE]
    /\ UNCHANGED <<file, lock, left>>

-----------------------------------------------------------------------------
Init ==
    /\ file \in InitialFiles
    /\ lock = NoProc
    /\ pc = [p \in Procs |-> "idle"]
    /\ op = [p \in Procs |-> NotYet]
    /\ got = [p \in Procs |-> Unset]
    /\ draft = [p \in Procs |-> Unset]
    /\ cmd = [p \in Procs |-> NotYet]
    /\ mode = [p \in Procs |-> NotYet]
    /\ config = [p \in Procs |-> NotYet]
    /\ ws = [p \in Procs |-> NotYet]
    /\ item = [p \in Procs |-> NotYet]
    /\ agreed = [p \in Procs |-> FALSE]
    /\ left = MaxCommands
    /\ known = [p \in Procs |-> {}]

Remember ==
    known' = [p \in Procs |->
                IF pc'[p] \in CliOver \cup {"idle"} THEN {}
                ELSE known[p] \cup {AsLoaded(file')}]

Step(p) ==
    \/ Invoke(p) \/ Begin(p) \/ KeepConfig(p)
    \/ ResolveWorkspace(p) \/ ResolveWarehouse(p) \/ Connect(p)
    \/ Show(p) \/ Ask(p) \/ Serve(p) \/ Exit(p)
    \/ ConfigStep(p) /\ UNCHANGED cliVars

Next == (\E p \in Procs : Step(p)) /\ Remember

Spec == Init /\ [][Next]_vars

-----------------------------------------------------------------------------
\* A command works on the workspace and the item of its command line, the option
\* after the subcommand before the one at the root, or else on those of the
\* environment; what it takes from the config file instead stood there, the two
\* of them together, at some time since it was started.
ActsWhereTold ==
    \A p \in Procs :
        pc[p] = "serve"
        /\ Kind(p).scope \in {"item", "snapshot", "workspace", "argument", "listing"} =>
            \E c \in known[p] \cup {Unset} :
                /\ ws[p] = Option(IF Kind(p).scope = "argument" THEN cmd[p].arg
                                  ELSE Workspace(p),
                                  Option(cmd[p].env.workspace, c["workspace"]))
                /\ Kind(p).scope = "item" =>
                     item[p] = Option(cmd[p].arg,
                                      Option(cmd[p].env.warehouse, c["warehouse"]))

\* What takes something away, and what the MCP server guards as if it did, is
\* done only with --yes or after the user has agreed; "sql exec" and a refresh
\* with --recreate-tables are left out.
RemovalsConfirmed ==
    \A p \in Procs :
        pc[p] \in {"serve", "served"} /\ Kind(p).grave => Yes(p) \/ agreed[p]
=============================================================================
