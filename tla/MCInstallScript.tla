--------------------------- MODULE MCInstallScript ---------------------------
\* Two flags, and the option -u, which is a flag to the subcommands; recipes
\* whose commands and options ask for flags they declare, and one that does not.
EXTENDS InstallScript

F(s, n) == [sign |-> s, name |-> n]
Ssl == F("+", "ssl")
NoSsl == F("-", "ssl")
Words == {Ssl, NoSsl, F("+", "gtk")}
CommandLines ==
    {<<>>, <<F("", "ssl")>>, <<NoSsl, Ssl>>} \cup {<<x>> : x \in Words}
        \cup {<<OptionUser, Ssl, F("+", "gtk")>>}

Do(cmd, flag, has, options) ==
    [cmd |-> cmd, if |-> flag, has |-> has, unset |-> FALSE, sound |-> TRUE, options |-> options]
Opt(flag) == [if |-> flag, named |-> TRUE]

Known == {{Ssl}, {Ssl, NoSsl}, {NoSsl, F("+", "gtk")}}
SomeRecipes ==
    {[iuse |-> {Ssl, NoSsl}, commands |->
        <<Do("git", NoFlag, {"url"}, <<>>),
          Do("configure", NoFlag, {}, <<Opt(Ssl), Opt(NoSsl)>>)>>],
     [iuse |-> {NoSsl, F("+", "gtk")}, commands |->
        <<Do("patch", F("+", "gtk"), {"filename"}, <<>>), Do("make", NoSsl, {}, <<>>)>>],
     [iuse |-> {Ssl}, commands |->
        <<Do("env_variable", NoSsl, {"name", "value"}, <<>>), Do("download", Ssl, {}, <<>>)>>]}
SomeBuilds ==
    {<<Do("git", NoFlag, {"url"}, <<>>), Do("autogen", Ssl, {}, <<Opt(NoFlag)>>)>>,
     <<Do("cd", F("", "ssl"), {}, <<>>)>>, <<Do("rpm", Ssl, {}, <<>>)>>}
=============================================================================
