------------------------------- MODULE MC_Cli -------------------------------
(* Any command beside another process that sets, unsets and clears.        *)
EXTENDS Cli, TLC

CONSTANTS user, other, v1, v2

MCKeys == {"workspace", "warehouse", "auth_mode"}

Options(w, a, y) == [workspace |-> w, auth |-> a, yes |-> y]
None == Options(NoValue, NoValue, FALSE)
Environment(w, i, a) == [workspace |-> w, warehouse |-> i, auth |-> a]
Bare == Environment(NoValue, NoValue, NoValue)
NoOp == [key |-> "workspace", value |-> NoValue]

Line(k, root, leaf, arg, env, o) ==
    [kind |-> k, root |-> root, leaf |-> leaf, arg |-> arg, env |-> env, op |-> o]

\* From the config alone, with an argument, and with each source over the next;
\* an argument is there where the command cannot do without.
Lines(k) ==
    LET line(root, leaf, arg, env) ==
          Line(k, root, leaf, IF k.scope = "snapshot" THEN v1 ELSE arg, env, NoOp)
    IN { line(None, None, NoValue, Bare),
         line(None, None, v1, Bare),
         line(Options(v1, NoValue, TRUE), None, NoValue, Environment(v2, NoValue, v2)),
         line(None, Options(v2, v2, TRUE), NoValue, Environment(NoValue, v2, Junk)),
         line(Options(v1, v1, FALSE), Options(v2, v2, FALSE), v1, Environment(v1, v2, Junk)) }

Sets(key, values) ==
    { Line(k, None, None, NoValue, Bare, [key |-> key, value |-> v]) :
        k \in {x \in CommandKinds : x.scope = "set"}, v \in values }
Clears ==
    { Line(k, Options(NoValue, NoValue, TRUE), None, NoValue, Bare, NoOp) :
        k \in {x \in CommandKinds : x.scope = "clear"} }

MCInvocations ==
    user :> UNION {Lines(k) : k \in {x \in CommandKinds : x.scope # "set"}}
            \cup Sets("workspace", {v2})
    @@ other :> Sets("workspace", {v2}) \cup Sets("warehouse", {NoValue, v2}) \cup Clears
MCMaxCommands == user :> 1 @@ other :> 2

Says(w, i, a) ==
    [k \in MCKeys |-> CASE k = "workspace" -> w [] k = "warehouse" -> i [] OTHER -> a]
MCFiles == { Broken, Says(v1, v1, v1), Says(v2, NoValue, Junk) }
=============================================================================
