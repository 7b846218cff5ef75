------------------------------ MODULE Environ ------------------------------
(***************************************************************************)
(* src/tlpi/c6/6.3.c: setenv and unsetenv made of getenv, putenv and       *)
(* unsetenv, over the list environ of strings "name=value".  c_unsetenv    *)
(* walks the list while the library's unsetenv takes entries out of it.    *)
(* Strings are sequences of letters and EQ.                                *)
(***************************************************************************)
EXTENDS Integers, Sequences, SequencesExt, FiniteSetsExt

CONSTANTS
    Characters,  \* of the strings
    EQ,          \* the character =
    Strings,     \* arguments of the two functions
    Environs,    \* lists the program may be started with
    MaxEntries,  \* bound on the entries of the list
    MaxEnvCalls  \* bound on the calls made

EnvironAssumption ==
    /\ EQ \in Characters
    /\ Strings \subseteq Seq(Characters)
    /\ Environs \subseteq Seq(Seq(Characters))

VARIABLES
    environ,
    estep,     \* "idle", "main" or "walk" (in c_unsetenv)
    called,    \* the arguments of the last call
    name,      \* c_unsetenv's argument
    c_environ, \* its place in the list
    envcalls   \* calls made so far

Init == /\ environ = <<>> /\ estep = "idle" /\ called = <<>>
        /\ name = <<>> /\ c_environ = 1 /\ envcalls = 0

Start(e) ==
    /\ estep = "idle" /\ estep' = "main" /\ environ' = e
    /\ UNCHANGED <<called, name, c_environ, envcalls>>

-----------------------------------------------------------------------------
(* An entry's name is what precedes its first EQ.                          *)
Cut(entry) == Min({Len(entry) + 1} \cup {i \in DOMAIN entry : entry[i] = EQ})
NameOf(entry) == SubSeq(entry, 1, Cut(entry) - 1)
ValueOf(entry) == SubSeq(entry, Cut(entry) + 1, Len(entry))

(* The library: the first entry of a name counts, putenv replaces that one *)
(* or adds another, and unsetenv takes all of them out and keeps the order *)
(* of the rest.                                                            *)
Places(n) == {i \in DOMAIN environ : Cut(environ[i]) <= Len(environ[i]) /\ NameOf(environ[i]) = n}
IsSet(n) == Places(n) # {}
Putenv(entry) ==
    IF IsSet(NameOf(entry)) THEN [environ EXCEPT ![Min(Places(NameOf(entry)))] = entry]
    ELSE Append(environ, entry)
Kth(S, k) == CHOOSE i \in S : Cardinality({j \in S : j <= i}) = k
Unsetenv(n) == LET kept == DOMAIN environ \ Places(n)
               IN  [k \in 1 .. Cardinality(kept) |-> environ[Kth(kept, k)]]

-----------------------------------------------------------------------------
(* setenv_check, which is applied to the value too: an empty value, or one *)
(* with an EQ in it, is refused.                                           *)
Accepts(s) == s # <<>> /\ EQ \notin Range(s)

Stores(n, overwrite) == overwrite \/ ~IsSet(n)

c_setenv(n, value, overwrite) ==
    /\ estep = "main" /\ envcalls < MaxEnvCalls /\ Len(environ) < MaxEntries
    /\ environ' = IF Accepts(n) /\ Accepts(value) /\ Stores(n, overwrite)
                  THEN Putenv(n \o <<EQ>> \o value) ELSE environ
    /\ called' = <<n, value, overwrite>> /\ envcalls' = envcalls + 1
    /\ UNCHANGED <<estep, name, c_environ>>

SecondPlace == 2
FirstPlace == 1

(* A name with an EQ in it is not refused, but matches no entry.           *)
c_unsetenv(n) ==
    /\ estep = "main" /\ envcalls < MaxEnvCalls
    /\ estep' = IF n = <<>> THEN "main" ELSE "walk"
    /\ name' = n /\ c_environ' = FirstPlace
    /\ called' = <<n>> /\ envcalls' = envcalls + 1
    /\ UNCHANGED environ

Matches(entry) == IsPrefix(name \o <<EQ>>, entry) /\ EQ \notin Range(name)

(* One round of the loop; the entries behind have moved down, the place is *)
(* moved up all the same.                                                  *)
Walk ==
    /\ estep = "walk" /\ c_environ <= Len(environ)
    /\ environ' = IF Matches(environ[c_environ]) THEN Unsetenv(name) ELSE environ
    /\ c_environ' = c_environ + 1
    /\ UNCHANGED <<estep, called, name, envcalls>>

(* Behind the entries the list is all null pointers, as many as there were *)
(* entries removed and one more.                                           *)
Walked ==
    /\ estep = "walk" /\ c_environ > Len(environ)
    /\ estep' = "main"
    /\ UNCHANGED <<environ, called, name, c_environ, envcalls>>

Next ==
    \/ \E e \in Environs : Start(e)
    \/ \E n \in Strings, v \in Strings, overwrite \in BOOLEAN : c_setenv(n, v, overwrite)
    \/ \E n \in Strings : c_unsetenv(n)
    \/ Walk \/ Walked

-----------------------------------------------------------------------------
(* What getenv shows of a list.                                            *)
NamesOf(e) == {NameOf(e[i]) : i \in {j \in DOMAIN e : Cut(e[j]) <= Len(e[j])}}
ShownBy(e) ==
    [n \in NamesOf(e) |-> ValueOf(e[Min({i \in DOMAIN e : IsPrefix(n \o <<EQ>>, e[i])})])]

E == INSTANCE EnvMap WITH
        started <- estep # "idle",
        env <- ShownBy(environ),
        doing <- IF estep = "walk" THEN name ELSE <<EQ>>,
        Names <- Strings, Values <- Strings, Legal <- {s \in Strings : Accepts(s)},
        None <- <<EQ>>

(* c_setenv gives the name it is called with the value it is called with,  *)
(* unless one of them is refused or the name has a value and overwrite is  *)
(* 0, and changes no other name; c_unsetenv changes no name but its own,   *)
(* which is gone when it ends however often it was in the list, though the *)
(* walk passes over the entry that takes the place of a removed one.       *)
ImplementsEnvMap == E!Spec
=============================================================================
