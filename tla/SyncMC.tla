------------------------------- MODULE SyncMC -------------------------------
\* A directory with one file in it, or what else may be at the two paths, and
\* a name that only a server can have.
EXTENDS Sync

F(size, time) == [is |-> "file", link |-> FALSE, size |-> size, time |-> time]
Link(e) == [e EXCEPT !.link = TRUE]
TwoPaths == <<<<"con">>, <<"d">>, <<"d", "f">>>>
Tree(c, d, f) == [p \in Paths |-> IF p = <<"con">> THEN c ELSE IF p = <<"d">> THEN d ELSE f]
Trees(cs) == {Tree(c, d, f) : c \in cs, d \in {Dir, Link(Dir)},
                             f \in {Absent, Dir, Link(F(1, 10))} \cup {F(1, t) : t \in {0, 10, 12, 20}} \cup {F(2, 10)}}
             \cup {Tree(c, d, Absent) : c \in cs, d \in {Absent, F(1, 10), F(2, 20)}}
LocalStart  == Trees({Absent})
RemoteStart == Trees({Absent, F(1, 10)})
TwoFolders == <<"compared", "other">>
Patterns == {{}, {[name |-> "f", dirOnly |-> FALSE]}, {[name |-> "d", dirOnly |-> TRUE]}}
=============================================================================
