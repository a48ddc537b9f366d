------------------------- MODULE MCDownloadTaskQueue -------------------------
EXTENDS DownloadTaskQueue, TLC

CONSTANTS g1, g2, t1, t2, t3

\* An album and a single file.
TwoGroups   == {g1, g2}
ThreeTasks  == {t1, t2, t3}
TwoAndOne   == t1 :> g1 @@ t2 :> g1 @@ t3 :> g2
OneChat     == {{g1}}

\* Only is the filter of the code: the order of what stays is kept.
ASSUME OnlyFilters ==
  \A q \in UNION {[1 .. n -> ThreeTasks] : n \in 0 .. 4}, S \in SUBSET ThreeTasks :
    Only(q, S) = SelectSeq(q, LAMBDA t : t \in S)

\* The two files of the album are interchangeable.
AlbumFiles  == Permutations({t1, t2})
=============================================================================
