----------------------------- MODULE MCMounting -----------------------------
(* An instance of Mounting: every option by itself, with values of up to   *)
(* two characters, and pairs of options of which the first may be a name   *)
(* that needs escaping.                                                    *)
EXTENDS Mounting

Chars == {"a", Comma, Backslash, NUL}
Values == {<<>>} \cup {<<c>> : c \in Chars} \cup {<<c, d>> : c \in Chars, d \in Chars}
ValuedOptions == {Option(kind, v) : kind \in Valued, v \in Values}
Names == {Option("FSName", v) : v \in Values}
Second == Plain \cup {Option("Subtype", <<"a">>), Option("CUSTOM", <<"a">>)}

MCLists ==
    {<<>>} \cup {<<o>> : o \in ValuedOptions \cup Plain}
    \cup {<<n, o>> : n \in Names, o \in Second} \cup {<<o, p>> : o \in Plain, p \in Plain}
MCPlatforms == {"linux", "bsd"}
MCBackends == {"pure-rust", "libfuse2", "libfuse3"}

=============================================================================
