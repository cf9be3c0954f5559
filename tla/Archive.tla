------------------------------- MODULE Archive ------------------------------
(***************************************************************************)
(* The Archiver of internal/recording: it writes the recordings of the     *)
(* legs of parallel tests as WAV files, one directory per test and one     *)
(* file per role.  The lock covers reserve alone; the directory is made    *)
(* and the file written after it is released.                              *)
(*                                                                         *)
(* A file name is a sequence: the sanitized role is one, and "-n" appends  *)
(* the number n, so that the second leg of role <<"greeting">> and the     *)
(* first of role <<"greeting", 1>> ("greeting-1") get the same name.       *)
(***************************************************************************)
EXTENDS Naturals, Sequences, FiniteSets

CONSTANTS Legs,     \* finalized recordings, one call of Archive each
          Owners,    \* test names, as Config.Owner gives them
          TestOf,   \* the test of each leg
          RoleOf,   \* its sanitized role
          Dir,      \* sanitize(test), the directory of a test
          Stale,    \* audio that an earlier run left in every directory
          None

Dirs == {Dir[t] : t \in Owners}
Roles == {RoleOf[l] : l \in Legs}

ASSUME LegsAssumption ==
  /\ IsFiniteSet(Legs)
  /\ \A l \in Legs : TestOf[l] \in Owners /\ RoleOf[l] # << >>
ASSUME StaleAssumption == Stale \notin Legs /\ None \notin Legs \cup {Stale}

\* Mutant: later legs get no number.
NameUnnumbered(r, n) == r

\* The file name of the (n+1)-th leg of role r, and all names there can be.
Name(r, n) == IF n = 0 THEN r ELSE Append(r, n)
StaleName == <<"stale">>

\* What the tests must see to, and Archive does not: each test has a directory of
\* its own, and no role reads like the numbered name of another.
DistinctNames ==
  /\ \A t, u \in Owners : Dir[t] = Dir[u] => t = u
  /\ \A l, m \in Legs : \A i, j \in 0..Cardinality(Legs) :
       TestOf[l] = TestOf[m] /\ Name(RoleOf[l], i) = Name(RoleOf[m], j)
         => RoleOf[l] = RoleOf[m] /\ i = j
Names == {Name(r, n) : r \in Roles, n \in 0..Cardinality(Legs)} \cup {StaleName}

VARIABLES
  clearedTest, \* tests whose directory was wiped in this run, or should have been
  unwiped,     \* those whose os.RemoveAll failed, which nothing in the code records
  usedRole,    \* legs of a test and role so far
  disk,        \* the file at a directory and name: the leg whose audio it holds
  exists,      \* directories that exist
  arch,        \* Archive of each leg
  name         \* its local name

archVars == <<clearedTest, unwiped, usedRole, disk, exists, arch, name>>

ArchTypeOK ==
  /\ clearedTest \subseteq Owners /\ unwiped \subseteq clearedTest
  /\ usedRole \in [Owners \X Roles -> 0..Cardinality(Legs)]
  /\ disk \in [Dirs \X Names -> Legs \cup {Stale, None}]
  /\ exists \subseteq Dirs
  /\ arch \in [Legs -> {"recording", "reserve", "mkdir", "write", "written", "skipped",
                       "failed", "nodir"}]
  /\ name \in [Legs -> Names \cup {<< >>}]

ArchInit ==
  /\ clearedTest = {} /\ unwiped = {}
  /\ usedRole = [x \in Owners \X Roles |-> 0]
  /\ disk = [x \in Dirs \X Names |-> IF x[2] \in Roles \cup {StaleName} THEN Stale ELSE None]
  /\ exists = Dirs
  /\ arch = [l \in Legs |-> "recording"]
  /\ name = [l \in Legs |-> << >>]

DirOf(l) == Dir[TestOf[l]]
ArchGoto(l, p) == arch' = [arch EXCEPT ![l] = p]

\* Archive up to reserve: nothing comes of a PCM file that is empty, missing or
\* cannot be read.
ReadPCM(l) ==
  /\ arch[l] = "recording"
  /\ \E p \in {"reserve", "skipped"} : ArchGoto(l, p)
  /\ UNCHANGED <<clearedTest, unwiped, usedRole, disk, exists, name>>

\* The first leg of a test in this run wipes the directory.
Wipes(t) == t \notin clearedTest

\* os.RemoveAll of a directory, whose error is ignored: it removes the directory
\* with all its files, or some of the files only.
RemoveAll(t) ==
  LET Removed(gone) ==
        disk' = [x \in DOMAIN disk |-> IF x[1] = Dir[t] /\ x[2] \in gone THEN None
                                                                        ELSE disk[x]] IN
  \/ /\ Removed(Names)
     /\ exists' = exists \ {Dir[t]}
     /\ UNCHANGED unwiped
  \/ /\ \E gone \in SUBSET Names : Removed(gone)
     /\ unwiped' = unwiped \cup {t}
     /\ UNCHANGED exists

\* reserve, under the lock.
Reserve(l) ==
  LET t == TestOf[l]
      n == usedRole[<<t, RoleOf[l]>>] IN
  /\ arch[l] = "reserve"
  /\ IF Wipes(t) THEN RemoveAll(t) ELSE UNCHANGED <<disk, exists, unwiped>>
  /\ clearedTest' = clearedTest \cup {t}
  /\ usedRole' = [usedRole EXCEPT ![<<t, RoleOf[l]>>] = n + 1]
  /\ name' = [name EXCEPT ![l] = Name(RoleOf[l], n)]
  /\ ArchGoto(l, "mkdir")

\* os.MkdirAll makes the directory, or fails, and Archive with it.
MkdirAll(l) ==
  /\ arch[l] = "mkdir"
  /\ \/ /\ exists' = exists \cup {DirOf(l)}
        /\ ArchGoto(l, "write")
     \/ /\ ArchGoto(l, "failed")
        /\ UNCHANGED exists
  /\ UNCHANGED <<clearedTest, unwiped, usedRole, disk, name>>

\* os.WriteFile writes the file; or fails for a reason of its own, with the file as
\* it was or with some of the audio in it; or has no directory to write to.
WriteFile(l) ==
  LET audio == [disk EXCEPT ![<<DirOf(l), name[l]>>] = l] IN
  /\ arch[l] = "write"
  /\ \/ /\ DirOf(l) \in exists
        /\ disk' = audio
        /\ ArchGoto(l, "written")
     \/ /\ DirOf(l) \in exists
        /\ disk' \in {disk, audio}
        /\ ArchGoto(l, "failed")
     \/ /\ DirOf(l) \notin exists
        /\ ArchGoto(l, "nodir")
        /\ UNCHANGED disk
  /\ UNCHANGED <<clearedTest, unwiped, usedRole, exists, name>>

ArchStep(l) == ReadPCM(l) \/ Reserve(l) \/ MkdirAll(l) \/ WriteFile(l)

-----------------------------------------------------------------------------
\* A leg that was written is not lost: its file holds its own audio, which no other
\* leg of the run overwrites or wipes, and no write finds its directory removed
\* since its MkdirAll, however the legs of parallel tests interleave between reserve
\* and the write.  And a directory mixes legs of this run with what an earlier run
\* left there only if its os.RemoveAll failed, an error that reserve ignores and,
\* with clearedTest set, never makes good.
LegsKept ==
  \A l \in Legs :
    /\ arch[l] = "written" =>
         /\ disk[<<DirOf(l), name[l]>>] = l
         /\ (\E n \in Names : disk[<<DirOf(l), n>>] = Stale) => TestOf[l] \in unwiped
    /\ arch[l] # "nodir"
=============================================================================
