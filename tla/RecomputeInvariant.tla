------------------------- MODULE RecomputeInvariant -------------------------
(***************************************************************************)
(* The inductive invariants behind the properties of RecomputeQueue: which *)
(* rows a run answers for, when a scope has one live row only, and what    *)
(* the results on show owe to a row.                                       *)
(***************************************************************************)
EXTENDS RecomputeQueue

\* The claimed copies a run still answers for.
Claims(p) == run[p].todo \union ({run[p].row} \ {NoClaim})

\* Two copies of one row are the same copy, held by the same run.
ClaimsDistinct ==
    \A p, q \in Engines : \A c \in Claims(p), d \in Claims(q) :
        c.id = d.id => p = q /\ c = d

\* The row in hand is no longer to do.
InHandIsTaken == \A p \in Engines : run[p].row \notin run[p].todo

\* Whatever settles a row has one in hand.
SettlesARow ==
    \A p \in Engines : run[p].at \in {"cleanup", "mark", "fail"} => run[p].row # NoClaim

\* A held row is out of the queue: running, or completed by a call whose
\* reply was lost, and perhaps deleted since.  Its attempts are the copy's.
HeldIsOutOfQueue ==
    \A p \in Engines : \A c \in Claims(p) :
        /\ rows[c.id].status \in {"processing", "completed", "deleted"}
        /\ rows[c.id].attempts = c.attempts

\* Rows not yet inserted have been tried by nobody.
AbsentIsUntried == \A r \in RowIds : rows[r].status = "absent" => rows[r].attempts = 0

\* No administrator is about to reset a row.
NoReset == \A c \in Clients : client[c].at # "reset"

HolderInv ==
    /\ TypeOK
    /\ ClaimsDistinct
    /\ InHandIsTaken
    /\ SettlesARow
    /\ HeldIsOutOfQueue
    /\ AbsentIsUntried
    /\ NoReset

-----------------------------------------------------------------------------
(* While rows enter through the enqueue RPC only and no reply is lost.     *)

Live == Active \union {"failed"}

\* No recruitment has been promoted, so no fan-out is under way.
NoPromotion ==
    /\ promoted = {}
    /\ \A c \in Clients : client[c].at \notin {"promoted", "insert"}

\* A held row is running.
HeldIsRunning ==
    \A p \in Engines : \A c \in Claims(p) : rows[c.id].status = "processing"

\* A scope has one row that is not settled for good.
OneLivePerScope ==
    \A r, s \in RowIds :
        /\ rows[r].scope = rows[s].scope
        /\ rows[r].status \in Live
        /\ rows[s].status \in Live
        => r = s

ScopeInv == HolderInv /\ NoPromotion /\ HeldIsRunning /\ OneLivePerScope

-----------------------------------------------------------------------------
(* While one run of the engine exists and its saves succeed.               *)

\* No row asks for, and no run has seen, data that do not exist yet.
PastOnly ==
    /\ shown <= version
    /\ \A r \in RowIds : rows[r].asked <= version
    /\ \A p \in Engines : run[p].seen <= version

\* A run that compares or saves has seen what its row asked for, and
\* nothing older than what is on show.
SeenIsFresh ==
    \A p \in Engines : run[p].at \in {"compare", "save"} =>
        /\ run[p].seen >= shown
        /\ run[p].row # NoClaim => run[p].seen >= rows[run[p].row.id].asked

\* A run that settles its row has put what it asked for on show.
SettlingIsShown ==
    \A p \in Engines : run[p].at \in {"cleanup", "mark"} =>
        shown >= rows[run[p].row.id].asked

ShownInv ==
    /\ HolderInv
    /\ PastOnly
    /\ SeenIsFresh
    /\ SettlingIsShown
    /\ CompletedIsShown
=============================================================================
