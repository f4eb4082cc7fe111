--------------------------- MODULE SalHandoffProofs ---------------------------
(***************************************************************************)
(* Theorems about SalHandoff for every value of its constants: any number  *)
(* of runs of rift-login and rift-client and of handoffs.                  *)
(***************************************************************************)
EXTENDS SalHandoff, TLAPS

USE HandoffsAssumption

-------------------------------------------------------------------------------
(* The inductive invariant.                                                *)

\* A call at work has a handoff, and a name once it has made its file.
AtWork == \A l \in Launchers :
  /\ launcher[l].at \notin {"idle", "killed"} => launcher[l].key \in Keys
  /\ launcher[l].at \notin {"idle", "create", "killed"} => launcher[l].path \in named

\* Handoffs are issued in order, each to one call.
KeysIssued == /\ \A l \in Launchers : launcher[l].key <= issued
              /\ \A p \in Paths : dir[p].key <= issued
              /\ \A f \in FrontEnds : front[f].text.key <= issued
KeysApart == \A l, m \in Launchers : launcher[l].key = launcher[m].key =>
               l = m \/ launcher[l].key = None

\* Nothing holds a handoff before its file is made.
Fresh == \A l \in Launchers : launcher[l].at = "create" =>
           /\ \A p \in Paths : dir[p].key # launcher[l].key
           /\ \A f \in FrontEnds : front[f].text.key # launcher[l].key

FilesAreNamed == \A p \in Paths : dir[p] # NoFile => p \in named
OneFile == \A p, q \in Paths : dir[p].key = dir[q].key => p = q \/ dir[p].key = None

\* Under a call's name there is its own file or none, whole once it is closed.
OwnFile == \A l \in Launchers :
  launcher[l].at \in {"write", "unlink", "chmod", "popen", "launched"} =>
    \/ dir[launcher[l].path] = NoFile
    \/ /\ dir[launcher[l].path].key = launcher[l].key
       /\ launcher[l].at \notin {"write", "unlink"} => dir[launcher[l].path].part = "all"

\* What a front-end has read is still the text under its path, or deleted.
Reading == \A f \in FrontEnds :
  /\ front[f].at \in {"read", "unlink"} => front[f].path \in named
  /\ front[f].at \in {"unlink", "parse", "connected"} => front[f].text \in Text
  /\ front[f].at = "unlink" => \/ dir[front[f].path] = NoFile
                               \/ dir[front[f].path].key = front[f].text.key

\* A front-end past the deletion is the only place left with its key.
Deleted == \A f \in FrontEnds : front[f].at \in {"parse", "connected"} =>
  /\ \A p \in Paths : dir[p].key # front[f].text.key
  /\ \A g \in FrontEnds : front[g].at \in {"parse", "connected"} =>
       g = f \/ front[g].text.key # front[f].text.key

Presented == \A s \in presented : /\ front[s.front].at = "connected"
                                  /\ s.text = front[s.front].text

\* A front-end started by rift-login has the path of its launcher, then its text.
Started == \A f \in FrontEnds : front[f].by # None =>
  LET l == front[f].by
  IN /\ launcher[l].at = "launched"
     /\ front[f].at = "read" => front[f].path = launcher[l].path
     /\ front[f].at \in {"unlink", "parse", "connected"} =>
          front[f].text = [key |-> launcher[l].key, part |-> "all"]

Inv == /\ TypeOK
       /\ AtWork /\ KeysIssued /\ KeysApart /\ Fresh
       /\ FilesAreNamed /\ OneFile /\ OwnFile
       /\ Reading /\ Deleted /\ Presented /\ Started /\ NoCutFileLeft

-------------------------------------------------------------------------------
(* What the types say of the fields, and what a step leaves of them.        *)

LauncherStates == {"idle", "create", "write", "unlink", "chmod", "popen", "launched", "killed"}
FrontStates == {"off", "read", "unlink", "parse", "connected", "dead", "killed"}
LauncherType == [at : LauncherStates, path : Paths \cup {None}, key : Keys \cup {None}]
FrontType == [at : FrontStates, path : Paths \cup {None}, by : Launchers \cup {None},
              text : Text \cup {NoFile}]

LEMMA Types == TypeOK <=>
  /\ dir \in [Paths -> Text \cup {NoFile}] /\ named \subseteq Paths /\ issued \in 0..MaxHandoffs
  /\ launcher \in [Launchers -> LauncherType]
  /\ front \in [FrontEnds -> FrontType]
  /\ presented \subseteq [front : FrontEnds, text : Text]
BY DEF TypeOK, LauncherType, LauncherStates, FrontType, FrontStates

LEMMA TextFields == /\ \A t \in Text \cup {NoFile} : /\ t.key \in 0..MaxHandoffs
                                                    /\ t = NoFile <=> t.key = None
                    /\ \A t \in Text : t.key \in Keys /\ t.key # None
                    /\ NoFile.key = None /\ NoFile \notin Text
<1>1. NoFile.key = None  BY DEF NoFile
<1>2. \A t \in Text : t.key \in Keys  BY DEF Text
<1>3. Keys \subseteq 0..MaxHandoffs /\ None \in 0..MaxHandoffs /\ None \notin Keys
  BY DEF Keys, None
<1> QED  BY <1>1, <1>2, <1>3

LEMMA TextRecord == ASSUME NEW t \in Text PROVE t = [key |-> t.key, part |-> t.part]
BY DEF Text

LEMMA GoesFrame ==
  ASSUME TypeOK, NEW l \in Launchers, NEW at \in LauncherStates, Goes(l, at)
  PROVE  /\ launcher' \in [Launchers -> LauncherType]
         /\ launcher'[l].at = at /\ launcher'[l].path = launcher[l].path
         /\ launcher'[l].key = launcher[l].key
         /\ \A m \in Launchers : m # l => launcher'[m] = launcher[m]
<1>1. launcher \in [Launchers -> LauncherType]  BY Types
<1> QED  BY <1>1 DEF Goes, LauncherType

LEMMA ProceedsFrame ==
  ASSUME TypeOK, NEW f \in FrontEnds, NEW at \in FrontStates, Proceeds(f, at)
  PROVE  /\ front' \in [FrontEnds -> FrontType]
         /\ front'[f].at = at /\ front'[f].path = front[f].path
         /\ front'[f].by = front[f].by /\ front'[f].text = front[f].text
         /\ \A g \in FrontEnds : g # f => front'[g] = front[g]
<1>1. front \in [FrontEnds -> FrontType]  BY Types
<1> QED  BY <1>1 DEF Proceeds, FrontType

LEMMA EndsFrame ==
  ASSUME TypeOK, NEW f \in FrontEnds, NEW at \in FrontStates, Ends(f, at)
  PROVE  /\ front' \in [FrontEnds -> FrontType]
         /\ front'[f].at = at /\ front'[f].by = None /\ front'[f].text = NoFile
         /\ \A g \in FrontEnds : g # f => front'[g] = front[g]
<1>1. front \in [FrontEnds -> FrontType]  BY Types
<1> QED  BY <1>1 DEF Ends, FrontType

\* A step that leaves each file as it is, or deletes it.
Shrinks == /\ dir' \in [Paths -> Text \cup {NoFile}]
           /\ \A p \in Paths : dir'[p] = dir[p] \/ dir'[p] = NoFile

LEMMA Deletes ==
  ASSUME TypeOK, NEW p \in Paths \cup {None}, dir' = [dir EXCEPT ![p] = NoFile] \/ UNCHANGED dir
  PROVE  Shrinks /\ (dir' # dir => p \in Paths /\ dir'[p] = NoFile)
BY Types DEF Shrinks

\* The files and the launchers' calls allow a step of one launcher that makes
\* no file and starts no front-end.
LEMMA LauncherStep ==
  ASSUME Inv, NEW l \in Launchers, NEW at \in {"idle", "unlink", "popen", "killed"},
         Goes(l, at), Shrinks, UNCHANGED <<named, issued, front, presented>>,
         launcher[l].at # "launched",
         at = "unlink" => launcher[l].at = "write",
         at = "popen" => launcher[l].at = "chmod",
         at = "idle" => \/ launcher[l].at \in {"create", "chmod", "popen"}
                        \/ launcher[l].at = "unlink" /\ dir'[launcher[l].path] = NoFile
  PROVE  Inv'
<1> USE TextFields DEF Inv
<1>t. at \in LauncherStates  BY DEF LauncherStates
<1>f. /\ launcher' \in [Launchers -> LauncherType]
      /\ launcher'[l].at = at /\ launcher'[l].path = launcher[l].path
      /\ launcher'[l].key = launcher[l].key
      /\ \A m \in Launchers : m # l => launcher'[m] = launcher[m]
  BY <1>t, GoesFrame
<1>d. /\ dir' \in [Paths -> Text \cup {NoFile}]
      /\ \A p \in Paths : dir'[p] = dir[p] \/ dir'[p] = NoFile
  BY DEF Shrinks
<1>0. \A p \in Paths : dir[p] \in Text \cup {NoFile} /\ dir'[p] \in Text \cup {NoFile}
  BY <1>d, Types
<1>k. \A m \in Launchers : launcher[m].at \in LauncherStates /\ launcher[m].key \in Keys \cup {None}
                            /\ launcher[m].path \in Paths \cup {None}
  BY Types DEF LauncherType
<1>i. issued \in Nat /\ None \in Nat /\ None <= issued /\ named \subseteq Paths
  BY Types DEF None
<1>g. \A g \in FrontEnds : front[g].by \in Launchers \cup {None} /\ front[g].path \in Paths \cup {None}
  BY Types DEF FrontType
<1>1. TypeOK'
  BY <1>f, <1>d, Types DEF TypeOK, LauncherType, LauncherStates, FrontType, FrontStates
<1>2. AtWork'  BY <1>f DEF AtWork
<1>3. KeysIssued'  BY <1>f, <1>d, <1>i DEF KeysIssued
<1>4. KeysApart'  BY <1>f DEF KeysApart
<1>5. Fresh'  BY <1>f, <1>d, <1>0, <1>k DEF Fresh, AtWork, Keys, None
<1>6. FilesAreNamed'  BY <1>d DEF FilesAreNamed
<1>7. OneFile'  BY <1>d, <1>0 DEF OneFile
<1>8. OwnFile'  BY <1>f, <1>d, <1>i DEF OwnFile, AtWork
<1>9. Reading'  BY <1>d, <1>i DEF Reading
<1>10. Deleted'  
  <2>1. \A g \in FrontEnds : front[g].at \in {"parse", "connected"} => front[g].text.key # None
    BY DEF Reading
  <2> QED  BY <1>d, <2>1 DEF Deleted
<1>11. Presented'  BY DEF Presented
<1>12. Started'  BY <1>f, <1>g DEF Started
<1>13. NoCutFileLeft'  BY <1>f, <1>d, <1>0 DEF NoCutFileLeft
<1> QED
  BY <1>1, <1>2, <1>3, <1>4, <1>5, <1>6, <1>7, <1>8, <1>9, <1>10, <1>11, <1>12, <1>13

LEMMA SelectCharacterStep == ASSUME Inv, NEW l \in Launchers, SelectCharacter(l) PROVE Inv'
<1> USE TextFields DEF Inv
<1>1. /\ launcher[l].at = "idle" /\ issued < MaxHandoffs /\ issued' = issued + 1
      /\ launcher' = [launcher EXCEPT ![l] = [at |-> "create", path |-> None, key |-> issued + 1]]
      /\ UNCHANGED <<dir, named, front, presented>>
  BY DEF SelectCharacter, KeyOfReply
<1>2. /\ launcher \in [Launchers -> LauncherType] /\ issued \in 0..MaxHandoffs
      /\ dir \in [Paths -> Text \cup {NoFile}] /\ front \in [FrontEnds -> FrontType]
  BY Types
<1>3. issued + 1 \in Keys /\ issued + 1 \in Nat /\ issued + 1 # None
  BY <1>1, <1>2 DEF Keys, None
<1>4. /\ launcher'[l].at = "create" /\ launcher'[l].path = None /\ launcher'[l].key = issued + 1
      /\ \A m \in Launchers : m # l => launcher'[m] = launcher[m]
  BY <1>1, <1>2
<1>5. launcher' \in [Launchers -> LauncherType]
  BY <1>1, <1>2, <1>3 DEF LauncherType, LauncherStates
<1>6. /\ \A p \in Paths : dir[p].key \in 0..MaxHandoffs /\ dir[p].key # issued + 1
      /\ \A f \in FrontEnds : front[f].text.key \in 0..MaxHandoffs /\ front[f].text.key # issued + 1
      /\ \A m \in Launchers : launcher[m].key \in 0..MaxHandoffs /\ launcher[m].key # issued + 1
  <2>1. /\ \A p \in Paths : dir[p].key \in 0..MaxHandoffs
        /\ \A f \in FrontEnds : front[f].text.key \in 0..MaxHandoffs
        /\ \A m \in Launchers : launcher[m].key \in 0..MaxHandoffs
    BY <1>2 DEF FrontType, LauncherType, Keys, None
  <2> QED  BY <1>2, <2>1 DEF KeysIssued
<1>7. TypeOK'
  <2>1. issued' \in 0..MaxHandoffs  BY <1>1, <1>2
  <2> QED  BY <1>1, <1>5, <2>1, Types DEF TypeOK, LauncherType, LauncherStates, FrontType, FrontStates
<1>8. AtWork'  BY <1>1, <1>3, <1>4 DEF AtWork
<1>9. KeysIssued'  BY <1>1, <1>2, <1>4, <1>6 DEF KeysIssued
<1>10. KeysApart'  BY <1>4, <1>6 DEF KeysApart
<1>11. Fresh'  BY <1>1, <1>4, <1>6 DEF Fresh
<1>12. FilesAreNamed' /\ OneFile' /\ Reading' /\ Deleted' /\ Presented'
  BY <1>1 DEF FilesAreNamed, OneFile, Reading, Deleted, Presented
<1>13. OwnFile'  BY <1>1, <1>4 DEF OwnFile
<1>14. Started'
  <2>1. \A f \in FrontEnds : front[f].by \in Launchers \cup {None}  BY <1>2 DEF FrontType
  <2>2. \A m \in Launchers : launcher[m].at = "launched" => launcher'[m] = launcher[m]
    BY <1>1, <1>4
  <2>3. front' = front  BY <1>1
  <2> QED  BY <2>1, <2>2, <2>3 DEF Started
<1>15. NoCutFileLeft'  BY <1>1, <1>4 DEF NoCutFileLeft
<1> QED
  BY <1>7, <1>8, <1>9, <1>10, <1>11, <1>12, <1>13, <1>14, <1>15

LEMMA MkstempStep == ASSUME Inv, NEW l \in Launchers, Mkstemp(l) PROVE Inv'
<1> USE TextFields DEF Inv
<1> PICK p \in Paths :
      /\ launcher[l].at = "create" /\ p \notin named /\ named' = named \cup {p}
      /\ dir' = [dir EXCEPT ![p] = [key |-> launcher[l].key, part |-> "none"]]
      /\ launcher' = [launcher EXCEPT ![l].at = "write", ![l].path = p]
      /\ UNCHANGED <<issued, front, presented>>
  BY DEF Mkstemp, NewName
<1> DEFINE k == launcher[l].key
<1>1. /\ launcher \in [Launchers -> LauncherType] /\ issued \in 0..MaxHandoffs /\ named \subseteq Paths
      /\ dir \in [Paths -> Text \cup {NoFile}] /\ front \in [FrontEnds -> FrontType]
  BY Types
<1>2. k \in Keys /\ k # None /\ k \in Nat /\ k <= issued
  BY DEF AtWork, Keys, None, KeysIssued
<1>3. dir[p] = NoFile  BY DEF FilesAreNamed
<1>4. /\ [key |-> k, part |-> "none"] \in Text
      /\ dir' \in [Paths -> Text \cup {NoFile}] /\ dir'[p] \in Text
      /\ dir'[p].key = k /\ dir'[p].part = "none"
      /\ \A q \in Paths : q # p => dir'[q] = dir[q]
  BY <1>1, <1>2 DEF Text
<1>5. /\ launcher' \in [Launchers -> LauncherType]
      /\ launcher'[l].at = "write" /\ launcher'[l].path = p /\ launcher'[l].key = k
      /\ \A m \in Launchers : m # l => launcher'[m] = launcher[m]
  BY <1>1 DEF LauncherType, LauncherStates
<1>6. /\ \A q \in Paths : dir[q].key # k
      /\ \A f \in FrontEnds : front[f].text.key # k
  BY DEF Fresh
<1>7. \A m \in Launchers : m # l => launcher[m].key # k
  BY <1>2 DEF KeysApart
<1>8. TypeOK'
  BY <1>1, <1>4, <1>5, Types DEF TypeOK, LauncherType, LauncherStates, FrontType, FrontStates
<1>9. AtWork'  BY <1>2, <1>5 DEF AtWork
<1>10. KeysIssued'  BY <1>1, <1>2, <1>4, <1>5 DEF KeysIssued
<1>11. KeysApart'  BY <1>5 DEF KeysApart
<1>12. Fresh'  BY <1>4, <1>5, <1>7 DEF Fresh
<1>13. FilesAreNamed'  BY <1>4 DEF FilesAreNamed
<1>14. OneFile'  BY <1>4, <1>6 DEF OneFile
<1>15. OwnFile'
  <2>1. \A m \in Launchers : m # l => OwnFile!(m)'
    BY <1>4, <1>5 DEF OwnFile, AtWork
  <2> QED  BY <1>4, <1>5, <2>1 DEF OwnFile
<1>16. Reading'  BY <1>1, <1>4 DEF Reading
<1>17. Deleted'  BY <1>4, <1>6 DEF Deleted
<1>18. Presented'  BY DEF Presented
<1>19. Started'
  <2>1. \A f \in FrontEnds : front[f].by \in Launchers \cup {None}  BY <1>1 DEF FrontType
  <2> QED  BY <1>5, <2>1 DEF Started
<1>20. NoCutFileLeft'  BY <1>4, <1>5 DEF NoCutFileLeft
<1> QED
  BY <1>8, <1>9, <1>10, <1>11, <1>12, <1>13, <1>14, <1>15, <1>16, <1>17, <1>18, <1>19, <1>20

\* Writing on changes no key, and no part of a file that is not the call's own.
LEMMA HoldsFrame ==
  ASSUME Inv, NEW l \in Launchers, launcher[l].at = "write",
         NEW part \in {"some", "all"}, Holds(l, part)
  PROVE  /\ dir' \in [Paths -> Text \cup {NoFile}]
         /\ \A p \in Paths : dir'[p].key = dir[p].key /\ (dir'[p] = NoFile <=> dir[p] = NoFile)
         /\ \A p \in Paths : p # launcher[l].path => dir'[p] = dir[p]
         /\ launcher[l].path \in Paths
         /\ dir'[launcher[l].path] # NoFile => dir'[launcher[l].path].part = part
<1> USE TextFields DEF Inv
<1> DEFINE own == launcher[l].path
<1>1. /\ dir \in [Paths -> Text \cup {NoFile}] /\ own \in Paths
      /\ launcher[l].key \in Keys /\ launcher[l].key # None
  BY Types DEF AtWork, Keys, None
<1>2. CASE dir[own].key = launcher[l].key
  <2>1. dir' = [dir EXCEPT ![own].part = part]  BY <1>2 DEF Holds
  <2>2. dir[own] \in Text  BY <1>1, <1>2
  <2>3. [dir[own] EXCEPT !.part = part] \in Text  BY <2>2 DEF Text
  <2>4. [dir[own] EXCEPT !.part = part].key = dir[own].key /\ [dir[own] EXCEPT !.part = part].part = part
    BY <2>2 DEF Text
  <2>5. dir'[own] = [dir[own] EXCEPT !.part = part]  BY <1>1, <2>1
  <2>6. \A p \in Paths : p # own => dir'[p] = dir[p]  BY <1>1, <2>1
  <2>7. dir' \in [Paths -> Text \cup {NoFile}]  BY <1>1, <2>1, <2>3
  <2>8. /\ dir'[own] # NoFile /\ dir[own] # NoFile
        /\ dir'[own].key = dir[own].key /\ dir'[own].part = part
    BY <2>2, <2>3, <2>4, <2>5
  <2> QED  BY <1>1, <2>6, <2>7, <2>8
<1>3. CASE dir[own].key # launcher[l].key
  <2>1. dir' = dir  BY <1>3 DEF Holds
  <2>2. dir[own] = NoFile  BY <1>3 DEF OwnFile
  <2> QED  BY <1>1, <2>1, <2>2
<1> QED
  BY <1>2, <1>3

LEMMA WriteStep ==
  ASSUME Inv, NEW l \in Launchers, launcher[l].at = "write",
         NEW part \in {"some", "all"}, Holds(l, part), NEW at \in {"write", "chmod"}, Goes(l, at),
         at = "chmod" => part = "all", UNCHANGED <<named, issued, front, presented>>
  PROVE  Inv'
<1> USE TextFields DEF Inv
<1>d. /\ dir' \in [Paths -> Text \cup {NoFile}]
      /\ \A p \in Paths : dir'[p].key = dir[p].key /\ (dir'[p] = NoFile <=> dir[p] = NoFile)
      /\ \A p \in Paths : p # launcher[l].path => dir'[p] = dir[p]
      /\ launcher[l].path \in Paths
      /\ dir'[launcher[l].path] # NoFile => dir'[launcher[l].path].part = part
  BY HoldsFrame
<1>t. at \in LauncherStates  BY DEF LauncherStates
<1>f. /\ launcher' \in [Launchers -> LauncherType]
      /\ launcher'[l].at = at /\ launcher'[l].path = launcher[l].path
      /\ launcher'[l].key = launcher[l].key
      /\ \A m \in Launchers : m # l => launcher'[m] = launcher[m]
  BY <1>t, GoesFrame
<1>i. named \subseteq Paths /\ front \in [FrontEnds -> FrontType]  BY Types
<1>1. TypeOK'
  BY <1>f, <1>d, Types DEF TypeOK, LauncherType, LauncherStates, FrontType, FrontStates
<1>2. AtWork'  BY <1>f DEF AtWork
<1>3. KeysIssued'  BY <1>f, <1>d DEF KeysIssued
<1>4. KeysApart'  BY <1>f DEF KeysApart
<1>5. Fresh'  BY <1>f, <1>d DEF Fresh
<1>6. FilesAreNamed'  BY <1>d DEF FilesAreNamed
<1>7. OneFile'  BY <1>d DEF OneFile
<1>8. OwnFile'
  <2>1. ASSUME NEW m \in Launchers, m # l PROVE OwnFile!(m)'
    <3>1. CASE launcher[m].path = launcher[l].path
      BY <1>d, <1>f, <1>i, <2>1, <3>1 DEF OwnFile, AtWork, KeysApart
    <3>2. CASE launcher[m].path # launcher[l].path
      BY <1>d, <1>f, <1>i, <2>1, <3>2 DEF OwnFile, AtWork
    <3> QED  BY <3>1, <3>2
  <2> QED  BY <1>d, <1>f, <2>1 DEF OwnFile
<1>9. Reading'  BY <1>d, <1>i DEF Reading
<1>10. Deleted'  BY <1>d DEF Deleted
<1>11. Presented'  BY DEF Presented
<1>12. Started'
  <2>1. \A f \in FrontEnds : front[f].by \in Launchers \cup {None}  BY <1>i DEF FrontType
  <2> QED  BY <1>f, <2>1 DEF Started
<1>13. NoCutFileLeft'  BY <1>f, <1>d DEF NoCutFileLeft
<1> QED
  BY <1>1, <1>2, <1>3, <1>4, <1>5, <1>6, <1>7, <1>8, <1>9, <1>10, <1>11, <1>12, <1>13

\* A front-end that ends keeps nothing.
LEMMA EndStep ==
  ASSUME Inv, NEW f \in FrontEnds, NEW at \in {"dead", "killed"}, Ends(f, at),
         front[f].at # "connected", Shrinks, UNCHANGED <<named, issued, launcher, presented>>
  PROVE  Inv'
<1> USE TextFields DEF Inv
<1>t. at \in FrontStates  BY DEF FrontStates
<1>f. /\ front' \in [FrontEnds -> FrontType]
      /\ front'[f].at = at /\ front'[f].by = None /\ front'[f].text = NoFile
      /\ \A g \in FrontEnds : g # f => front'[g] = front[g]
  BY <1>t, EndsFrame
<1>d. /\ dir' \in [Paths -> Text \cup {NoFile}]
      /\ \A p \in Paths : dir'[p] = dir[p] \/ dir'[p] = NoFile
  BY DEF Shrinks
<1>i. /\ issued \in Nat /\ None \in Nat /\ None <= issued /\ named \subseteq Paths
      /\ presented \subseteq [front : FrontEnds, text : Text]
  BY Types DEF None
<1>k. \A m \in Launchers : launcher[m].at = "create" => launcher[m].key # None
  BY DEF AtWork, Keys, None
<1>1. TypeOK'
  BY <1>f, <1>d, Types DEF TypeOK, LauncherType, LauncherStates, FrontType, FrontStates
<1>2. AtWork' /\ KeysApart'  BY DEF AtWork, KeysApart
<1>3. KeysIssued'  BY <1>f, <1>d, <1>i DEF KeysIssued
<1>4. Fresh'  BY <1>f, <1>d, <1>k DEF Fresh
<1>5. FilesAreNamed' /\ OneFile'  BY <1>d DEF FilesAreNamed, OneFile
<1>6. OwnFile'  BY <1>d, <1>i DEF OwnFile, AtWork
<1>7. Reading'  BY <1>f, <1>d, <1>i DEF Reading
<1>8. Deleted'
  <2>1. \A g \in FrontEnds : front[g].at \in {"parse", "connected"} => front[g].text.key # None
    BY DEF Reading
  <2> QED  BY <1>f, <1>d, <2>1 DEF Deleted
<1>9. Presented'  BY <1>f, <1>i DEF Presented
<1>10. Started'  BY <1>f DEF Started
<1>11. NoCutFileLeft'  BY <1>d DEF NoCutFileLeft
<1> QED
  BY <1>1, <1>2, <1>3, <1>4, <1>5, <1>6, <1>7, <1>8, <1>9, <1>10, <1>11

LEMMA StartStep ==
  ASSUME Inv, NEW f \in FrontEnds, NEW by \in Launchers \cup {None}, NEW p \in named, Starts(f, by, p),
         UNCHANGED <<dir, named, issued, presented>>,
         \/ by = None /\ UNCHANGED launcher
         \/ /\ by \in Launchers /\ launcher[by].at = "popen" /\ launcher[by].path = p
            /\ Goes(by, "launched")
  PROVE  Inv'
<1> USE TextFields DEF Inv
<1>i. /\ launcher \in [Launchers -> LauncherType] /\ named \subseteq Paths
      /\ front \in [FrontEnds -> FrontType] /\ presented \subseteq [front : FrontEnds, text : Text]
  BY Types
<1>f. /\ front' \in [FrontEnds -> FrontType] /\ front[f].at = "off"
      /\ front'[f].at = "read" /\ front'[f].by = by /\ front'[f].path = p
      /\ front'[f].text = front[f].text
      /\ \A g \in FrontEnds : g # f => front'[g] = front[g]
  BY <1>i DEF Starts, FrontType, FrontStates
<1>l. /\ launcher' \in [Launchers -> LauncherType]
      /\ \A m \in Launchers : /\ launcher'[m].path = launcher[m].path
                               /\ launcher'[m].key = launcher[m].key
                               /\ \/ launcher'[m].at = launcher[m].at
                                  \/ launcher[m].at = "popen" /\ launcher'[m].at = "launched"
      /\ by # None => launcher'[by].at = "launched" /\ launcher[by].path = p
  <2>1. CASE by = None /\ UNCHANGED launcher
    BY <1>i, <2>1
  <2>2. CASE /\ by \in Launchers /\ launcher[by].at = "popen" /\ launcher[by].path = p
             /\ Goes(by, "launched")
    <3>1. "launched" \in LauncherStates  BY DEF LauncherStates
    <3>2. /\ launcher' \in [Launchers -> LauncherType]
          /\ launcher'[by].at = "launched" /\ launcher'[by].path = launcher[by].path
          /\ launcher'[by].key = launcher[by].key
          /\ \A m \in Launchers : m # by => launcher'[m] = launcher[m]
      BY <2>2, <3>1, GoesFrame
    <3> QED  BY <2>2, <3>2
  <2> QED  BY <2>1, <2>2
<1>1. TypeOK'
  BY <1>f, <1>l, Types DEF TypeOK, LauncherType, LauncherStates, FrontType, FrontStates
<1>2. AtWork' /\ KeysApart'  BY <1>l DEF AtWork, KeysApart
<1>3. KeysIssued'  BY <1>f, <1>l DEF KeysIssued
<1>4. Fresh'  BY <1>f, <1>l DEF Fresh
<1>5. FilesAreNamed' /\ OneFile'  BY DEF FilesAreNamed, OneFile
<1>6. OwnFile'  BY <1>l DEF OwnFile
<1>7. Reading'  BY <1>f DEF Reading
<1>8. Deleted'  BY <1>f DEF Deleted
<1>9. Presented'  BY <1>f, <1>i DEF Presented
<1>10. Started'
  <2>1. \A g \in FrontEnds : front[g].by \in Launchers \cup {None}  BY <1>i DEF FrontType
  <2> QED  BY <1>f, <1>l, <2>1 DEF Started
<1>11. NoCutFileLeft'  BY <1>l DEF NoCutFileLeft
<1> QED
  BY <1>1, <1>2, <1>3, <1>4, <1>5, <1>6, <1>7, <1>8, <1>9, <1>10, <1>11

LEMMA ReadTextStep == ASSUME Inv, NEW f \in FrontEnds, ReadText(f) PROVE Inv'
<1> USE TextFields DEF Inv
<1> DEFINE text == dir[front[f].path]
<1>i. /\ launcher \in [Launchers -> LauncherType] /\ named \subseteq Paths
      /\ dir \in [Paths -> Text \cup {NoFile}]
      /\ front \in [FrontEnds -> FrontType] /\ presented \subseteq [front : FrontEnds, text : Text]
  BY Types
<1>r. front[f].at = "read" /\ UNCHANGED <<dir, named, issued, launcher, presented>>
  BY DEF ReadText
<1>p. front[f].path \in Paths /\ text \in Text \cup {NoFile}
  BY <1>i, <1>r DEF Reading
<1>a. CASE text = NoFile
  <2>1. Ends(f, "dead")  BY <1>a DEF ReadText
  <2>2. Shrinks  BY <1>i, <1>r DEF Shrinks
  <2> QED  BY <1>r, <2>1, <2>2, EndStep
<1>b. CASE text # NoFile
  <2>t. text \in Text  BY <1>b, <1>p
  <2>1. front' = [front EXCEPT ![f].at = "unlink", ![f].text = text]
    BY <1>b DEF ReadText
  <2>f. /\ front' \in [FrontEnds -> FrontType]
        /\ front'[f].at = "unlink" /\ front'[f].by = front[f].by /\ front'[f].path = front[f].path
        /\ front'[f].text = text
        /\ \A g \in FrontEnds : g # f => front'[g] = front[g]
    BY <1>i, <2>1, <2>t DEF FrontType, FrontStates
  <2>2. TypeOK'
    BY <1>r, <2>f, Types DEF TypeOK, LauncherType, LauncherStates, FrontType, FrontStates
  <2>3. AtWork' /\ KeysApart' /\ FilesAreNamed' /\ OneFile' /\ OwnFile' /\ NoCutFileLeft'
    BY <1>r DEF AtWork, KeysApart, FilesAreNamed, OneFile, OwnFile, NoCutFileLeft
  <2>4. KeysIssued'  BY <1>r, <1>p, <2>f DEF KeysIssued
  <2>5. Fresh'  BY <1>r, <1>p, <2>f DEF Fresh
  <2>6. Reading'  BY <1>r, <2>f, <2>t DEF Reading
  <2>7. Deleted'  BY <1>r, <2>f DEF Deleted
  <2>8. Presented'  BY <1>r, <1>i, <2>f DEF Presented
  <2>9. Started'
    <3>1. \A g \in FrontEnds : front[g].by \in Launchers \cup {None}  BY <1>i DEF FrontType
    <3>2. front[f].by # None => text = [key |-> launcher[front[f].by].key, part |-> "all"]
      <4>0. text = [key |-> text.key, part |-> text.part]
        <5>1. text \in Text  BY <2>t
        <5> HIDE DEF text
        <5> QED  BY <5>1, TextRecord
      <4>1. SUFFICES ASSUME front[f].by # None
                     PROVE  text.key = launcher[front[f].by].key /\ text.part = "all"
        BY <4>0
      <4>2. /\ launcher[front[f].by].at = "launched"
            /\ front[f].path = launcher[front[f].by].path
        BY <1>r, <4>1 DEF Started
      <4> QED  BY <1>b, <3>1, <4>1, <4>2 DEF OwnFile
    <3> QED  BY <1>r, <2>f, <3>1, <3>2 DEF Started
  <2> QED
    BY <2>2, <2>3, <2>4, <2>5, <2>6, <2>7, <2>8, <2>9
<1> QED
  BY <1>a, <1>b

LEMMA DeleteAfterStep == ASSUME Inv, NEW f \in FrontEnds, DeleteAfter(f) PROVE Inv'
<1> USE TextFields DEF Inv
<1> DEFINE p == front[f].path
<1>i. /\ launcher \in [Launchers -> LauncherType] /\ named \subseteq Paths
      /\ dir \in [Paths -> Text \cup {NoFile}]
      /\ front \in [FrontEnds -> FrontType] /\ presented \subseteq [front : FrontEnds, text : Text]
  BY Types
<1>r. /\ front[f].at = "unlink" /\ dir' = [dir EXCEPT ![p] = NoFile]
      /\ UNCHANGED <<named, issued, launcher, presented>>
  BY DEF DeleteAfter, Unlink
<1>p. p \in Paths /\ front[f].text \in Text
  BY <1>i, <1>r DEF Reading
<1>s. Shrinks  BY <1>p, <1>r, Deletes
<1>d. /\ dir' \in [Paths -> Text \cup {NoFile}]
      /\ \A q \in Paths : dir'[q] = dir[q] \/ dir'[q] = NoFile
      /\ dir'[p] = NoFile
  BY <1>i, <1>p, <1>r, <1>s DEF Shrinks
<1>a. CASE dir[p] = NoFile
  <2>1. Ends(f, "dead")  BY <1>a DEF DeleteAfter, Unlink
  <2> QED  BY <1>r, <1>s, <2>1, EndStep
<1>b. CASE dir[p] # NoFile
  <2>1. Proceeds(f, "parse")  BY <1>b DEF DeleteAfter, Unlink
  <2>t. "parse" \in FrontStates  BY DEF FrontStates
  <2>f. /\ front' \in [FrontEnds -> FrontType]
        /\ front'[f].at = "parse" /\ front'[f].path = front[f].path
        /\ front'[f].by = front[f].by /\ front'[f].text = front[f].text
        /\ \A g \in FrontEnds : g # f => front'[g] = front[g]
    BY <2>1, <2>t, ProceedsFrame
  <2>k. /\ dir[p].key = front[f].text.key /\ front[f].text.key # None
        /\ \A q \in Paths : dir'[q].key # front[f].text.key
    <3>1. dir[p].key = front[f].text.key /\ front[f].text.key # None
      BY <1>b, <1>p, <1>r DEF Reading
    <3>2. \A q \in Paths : q # p => dir[q].key # front[f].text.key
      BY <1>p, <3>1 DEF OneFile
    <3> QED  BY <1>d, <3>1, <3>2
  <2>n. issued \in Nat /\ None \in Nat /\ None <= issued  BY Types DEF None
  <2>2. TypeOK'
    BY <1>r, <1>d, <2>f, Types DEF TypeOK, LauncherType, LauncherStates, FrontType, FrontStates
  <2>3. AtWork' /\ KeysApart'  BY <1>r DEF AtWork, KeysApart
  <2>4. KeysIssued'  BY <1>r, <1>d, <2>f, <2>n DEF KeysIssued
  <2>5. Fresh'
    <3>1. \A m \in Launchers : launcher[m].at = "create" => launcher[m].key # None
      BY DEF AtWork, Keys, None
    <3> QED  BY <1>r, <1>d, <2>f, <3>1 DEF Fresh
  <2>6. FilesAreNamed' /\ OneFile'  BY <1>r, <1>d DEF FilesAreNamed, OneFile
  <2>7. OwnFile'  BY <1>r, <1>d, <1>i DEF OwnFile, AtWork
  <2>8. Reading'  BY <1>r, <1>d, <1>i, <1>p, <2>f DEF Reading
  <2>9. Deleted'
    <3>1. \A g \in FrontEnds : front[g].at \in {"parse", "connected"} =>
            front[g].text.key # None /\ front[g].text.key # front[f].text.key
      BY <1>p, <2>k DEF Reading, Deleted
    <3> QED  BY <1>d, <2>f, <2>k, <3>1 DEF Deleted
  <2>10. Presented'  BY <1>r, <1>i, <2>f DEF Presented
  <2>11. Started'  BY <1>r, <2>f DEF Started
  <2>12. NoCutFileLeft'  BY <1>r, <1>d DEF NoCutFileLeft
  <2> QED
    BY <2>2, <2>3, <2>4, <2>5, <2>6, <2>7, <2>8, <2>9, <2>10, <2>11, <2>12
<1> QED
  BY <1>a, <1>b

LEMMA ConnectStep == ASSUME Inv, NEW f \in FrontEnds, Connect(f) PROVE Inv'
<1> USE TextFields DEF Inv
<1>i. front \in [FrontEnds -> FrontType] /\ presented \subseteq [front : FrontEnds, text : Text]
  BY Types
<1>r. /\ front[f].at = "parse" /\ Proceeds(f, "connected")
      /\ presented' = presented \cup {[front |-> f, text |-> front[f].text]}
      /\ UNCHANGED <<dir, named, issued, launcher>>
  BY DEF Connect
<1>t. "connected" \in FrontStates  BY DEF FrontStates
<1>f. /\ front' \in [FrontEnds -> FrontType]
      /\ front'[f].at = "connected" /\ front'[f].path = front[f].path
      /\ front'[f].by = front[f].by /\ front'[f].text = front[f].text
      /\ \A g \in FrontEnds : g # f => front'[g] = front[g]
  BY <1>r, <1>t, ProceedsFrame
<1>p. front[f].text \in Text  BY <1>r DEF Reading
<1>1. TypeOK'
  <2>1. presented' \subseteq [front : FrontEnds, text : Text]  BY <1>i, <1>p, <1>r
  <2> QED
    BY <1>r, <1>f, <2>1, Types DEF TypeOK, LauncherType, LauncherStates, FrontType, FrontStates
<1>2. AtWork' /\ KeysApart' /\ FilesAreNamed' /\ OneFile' /\ OwnFile' /\ NoCutFileLeft'
  BY <1>r DEF AtWork, KeysApart, FilesAreNamed, OneFile, OwnFile, NoCutFileLeft
<1>3. KeysIssued' /\ Fresh'  BY <1>r, <1>f DEF KeysIssued, Fresh
<1>4. Reading'  BY <1>r, <1>f DEF Reading
<1>5. Deleted'  BY <1>r, <1>f DEF Deleted
<1>6. Presented'  BY <1>r, <1>i, <1>f DEF Presented
<1>7. Started'  BY <1>r, <1>f DEF Started
<1> QED
  BY <1>1, <1>2, <1>3, <1>4, <1>5, <1>6, <1>7

-------------------------------------------------------------------------------
(* The invariant is one.                                                    *)

LEMMA InitInv == ASSUME Init PROVE Inv
<1> USE TextFields DEF Init, Inv
<1>1. TypeOK  BY DEF TypeOK, Keys, None
<1>2. /\ \A p \in Paths : dir[p] = NoFile
      /\ \A l \in Launchers : launcher[l].at = "idle" /\ launcher[l].key = None
      /\ \A f \in FrontEnds : front[f].at = "off" /\ front[f].by = None /\ front[f].text = NoFile
      /\ presented = {} /\ issued = 0 /\ None = 0
  BY DEF None
<1>3. AtWork /\ KeysApart /\ Fresh /\ FilesAreNamed /\ OneFile /\ OwnFile /\ NoCutFileLeft
  BY <1>2 DEF AtWork, KeysApart, Fresh, FilesAreNamed, OneFile, OwnFile, NoCutFileLeft
<1>4. KeysIssued  BY <1>2 DEF KeysIssued
<1>5. Reading /\ Deleted /\ Presented /\ Started
  BY <1>2 DEF Reading, Deleted, Presented, Started
<1> QED
  BY <1>1, <1>3, <1>4, <1>5

LEMMA LauncherKeepsInv == ASSUME Inv, NEW l \in Launchers, Launcher(l) \/ LauncherKilled(l) PROVE Inv'
<1>s. ASSUME UNCHANGED dir PROVE Shrinks
  BY <1>s, Types DEF Inv, Shrinks
<1>1. CASE SelectCharacter(l)
  BY <1>1, SelectCharacterStep
<1>2. CASE Mkstemp(l)
  BY <1>2, MkstempStep
<1>3. CASE MkstempRaises(l)
  BY <1>3, <1>s, LauncherStep DEF MkstempRaises
<1>4. CASE WriteSome(l)
  <2>1. Goes(l, "write")
    <3>1. launcher[l].at = "write" /\ launcher' = launcher  BY <1>4 DEF WriteSome
    <3>2. launcher \in [Launchers -> LauncherType]  BY Types DEF Inv
    <3> QED  BY <3>1, <3>2 DEF Goes, LauncherType
  <2> QED  BY <1>4, <2>1, WriteStep DEF WriteSome
<1>5. CASE WriteAll(l)
  BY <1>5, WriteStep DEF WriteAll, Close
<1>6. CASE WriteRaises(l)
  BY <1>6, <1>s, LauncherStep DEF WriteRaises, CleanUp
<1>7. CASE UnlinkPartial(l)
  <2>1. launcher[l].path \in Paths  BY <1>7, Types DEF Inv, AtWork, UnlinkPartial
  <2>2. Shrinks /\ dir'[launcher[l].path] = NoFile
    BY <1>7, <2>1, Types DEF Inv, UnlinkPartial, Shrinks
  <2> QED  BY <1>7, <2>2, LauncherStep DEF UnlinkPartial
<1>8. CASE Chmod(l)
  <2>1. PICK at \in {"idle", "popen"} : Goes(l, at)  BY <1>8 DEF Chmod
  <2> QED  BY <1>8, <1>s, <2>1, LauncherStep DEF Chmod
<1>9. CASE Popen(l)
  <2>1. PICK f \in FrontEnds : Starts(f, l, launcher[l].path)  BY <1>9 DEF Popen
  <2>2. launcher[l].path \in named  BY <1>9 DEF Inv, AtWork, Popen
  <2> QED  BY <1>9, <2>1, <2>2, StartStep DEF Popen
<1>10. CASE PopenRaises(l)
  BY <1>10, <1>s, LauncherStep DEF PopenRaises
<1>11. CASE LauncherKilled(l)
  BY <1>11, <1>s, LauncherStep DEF LauncherKilled
<1> QED
  BY <1>1, <1>2, <1>3, <1>4, <1>5, <1>6, <1>7, <1>8, <1>9, <1>10, <1>11 DEF Launcher

LEMMA FrontEndKeepsInv ==
  ASSUME Inv, NEW f \in FrontEnds, FrontEnd(f) \/ PlayerStarts(f) \/ FrontEndKilled(f) PROVE Inv'
<1>s. ASSUME UNCHANGED dir PROVE Shrinks
  BY <1>s, Types DEF Inv, Shrinks
<1>1. CASE ReadText(f)
  BY <1>1, ReadTextStep
<1>2. CASE DeleteAfter(f)
  BY <1>2, DeleteAfterStep
<1>3. CASE Connect(f)
  BY <1>3, ConnectStep
<1>4. CASE FieldMissing(f)
  BY <1>4, <1>s, EndStep DEF FieldMissing
<1>5. CASE PlayerStarts(f)
  <2>1. PICK p \in Paths : dir[p] # NoFile /\ Starts(f, None, p)  BY <1>5 DEF PlayerStarts
  <2>2. p \in named  BY <2>1 DEF Inv, FilesAreNamed
  <2> QED  BY <1>5, <2>1, <2>2, StartStep DEF PlayerStarts
<1>6. CASE FrontEndKilled(f)
  BY <1>6, <1>s, EndStep DEF FrontEndKilled
<1> QED
  BY <1>1, <1>2, <1>3, <1>4, <1>5, <1>6 DEF FrontEnd

LEMMA StutterKeepsInv == ASSUME Inv, UNCHANGED vars PROVE Inv'
<1>1. TypeOK' /\ AtWork' /\ KeysIssued' /\ KeysApart' /\ Fresh'
  BY DEF vars, Inv, TypeOK, AtWork, KeysIssued, KeysApart, Fresh
<1>2. FilesAreNamed' /\ OneFile' /\ OwnFile' /\ NoCutFileLeft'
  BY DEF vars, Inv, FilesAreNamed, OneFile, OwnFile, NoCutFileLeft
<1>3. Reading' /\ Deleted' /\ Presented' /\ Started'
  BY DEF vars, Inv, Reading, Deleted, Presented, Started
<1> QED
  BY <1>1, <1>2, <1>3 DEF Inv

LEMMA StepInv == ASSUME Inv, [Next]_vars PROVE Inv'
BY LauncherKeepsInv, FrontEndKeepsInv, StutterKeepsInv DEF Next, Stopped

\* The invariant of every step, from which the theorems below follow.
THEOREM Invariance == Spec => []Inv
<1>1. Init => Inv  BY InitInv
<1>2. Inv /\ [Next]_vars => Inv'  BY StepInv
<1> QED  BY <1>1, <1>2, PTL DEF Spec

\* Every variable of the handoff has its type.
THEOREM TypeCorrect == Spec => []TypeOK
<1>1. Inv => TypeOK  BY DEF Inv
<1> QED  BY <1>1, Invariance, PTL

\* A key is presented to the game server at most once, however many front-ends
\* are started on its file (the unlink in read_sal_file comes before main
\* connects): a front-end past the deletion is the only holder of its key.
THEOREM KeysArePresentedOnce == Spec => []KeyPresentedOnce
<1>1. Inv => KeyPresentedOnce
  <2> SUFFICES ASSUME Inv, NEW s \in presented, NEW t \in presented, s.text.key = t.text.key
               PROVE  s = t
    BY DEF KeyPresentedOnce
  <2>1. /\ s \in [front : FrontEnds, text : Text] /\ t \in [front : FrontEnds, text : Text]
        /\ s.front \in FrontEnds /\ t.front \in FrontEnds
    BY Types DEF Inv
  <2>2. /\ front[s.front].at = "connected" /\ s.text = front[s.front].text
        /\ front[t.front].at = "connected" /\ t.text = front[t.front].text
    BY DEF Inv, Presented
  <2>3. s.front = t.front
    BY <2>1, <2>2 DEF Inv, Deleted
  <2> QED  BY <2>1, <2>2, <2>3
<1> QED  BY <1>1, Invariance, PTL

Uses == {[user |-> s.front, key |-> s.text.key] : s \in presented}

LEMMA SingleUseStep == ASSUME Inv, [Next]_vars PROVE [Tokens!Next]_<<1..issued, Uses>>
<1> USE DEF Inv
<1>1. ASSUME NEW l \in Launchers, SelectCharacter(l) PROVE Tokens!Next
  <2>1. issued \in Nat /\ issued' = issued + 1 /\ issued + 1 \in Keys /\ Uses' = Uses
    BY <1>1, Types DEF SelectCharacter, Keys, Uses
  <2>2. issued + 1 \notin 1..issued /\ 1..issued' = (1..issued) \cup {issued + 1}
    BY <2>1
  <2>3. Tokens!Issue(issued + 1)  BY <2>1, <2>2 DEF Tokens!Issue, Uses
  <2> QED  BY <2>1, <2>3 DEF Tokens!Next
<1>2. ASSUME NEW f \in FrontEnds, Connect(f) PROVE Tokens!Next
  <2> DEFINE k == front[f].text.key
  <2>1. /\ front[f].at = "parse" /\ UNCHANGED issued
        /\ presented' = presented \cup {[front |-> f, text |-> front[f].text]}
    BY <1>2 DEF Connect
  <2>2. k \in Keys /\ k \in 1..issued
    <3>1. k \in Keys /\ k <= issued  BY <2>1, TextFields DEF Reading, KeysIssued
    <3>2. issued \in Nat  BY Types
    <3> QED  BY <3>1, <3>2 DEF Keys
  <2>3. \A s \in presented : s.text.key # k
    <3>1. \A s \in presented : s.front \in FrontEnds  BY Types
    <3> QED  BY <2>1, <3>1 DEF Presented, Deleted
  <2>4. \A u \in Uses : u.key # k  BY <2>3 DEF Uses
  <2>5. Uses' = Uses \cup {[user |-> f, key |-> k]}
    <3> DEFINE new == [front |-> f, text |-> front[f].text]
    <3>1. new.front = f /\ new.text.key = k  OBVIOUS
    <3>2. presented' = presented \cup {new}  BY <2>1
    <3> HIDE DEF new, k
    <3>3. Uses' = {[user |-> s.front, key |-> s.text.key] : s \in presented \cup {new}}
      BY <3>2 DEF Uses
    <3> QED  BY <3>1, <3>3 DEF Uses
  <2>6. Tokens!Use(k, f)  BY <2>1, <2>2, <2>4, <2>5 DEF Tokens!Use, Uses
  <2> QED  BY <2>2, <2>6 DEF Tokens!Next
<1>3. ASSUME UNCHANGED <<issued, presented>> PROVE UNCHANGED <<1..issued, Uses>>
  BY <1>3 DEF Uses
<1>4. ASSUME NEW l \in Launchers, Launcher(l) \/ LauncherKilled(l), ~SelectCharacter(l)
      PROVE  UNCHANGED <<issued, presented>>
  BY <1>4 DEF Launcher, LauncherKilled, Mkstemp, MkstempRaises, WriteSome, WriteAll, WriteRaises,
              UnlinkPartial, Chmod, Popen, PopenRaises
<1>5. ASSUME NEW f \in FrontEnds, FrontEnd(f) \/ PlayerStarts(f) \/ FrontEndKilled(f), ~Connect(f)
      PROVE  UNCHANGED <<issued, presented>>
  BY <1>5 DEF FrontEnd, PlayerStarts, FrontEndKilled, ReadText, DeleteAfter, FieldMissing
<1>6. ASSUME UNCHANGED vars PROVE UNCHANGED <<issued, presented>>
  BY <1>6 DEF vars
<1> QED
  BY <1>1, <1>2, <1>3, <1>4, <1>5, <1>6 DEF Next, Stopped

\* The handoff implements the single-use token of docs/sal-format.md.
THEOREM HandoffImplementsSingleUse == Spec => KeysAreSingleUse
<1>1. Init => Tokens!Init  BY DEF Init, Tokens!Init
<1>2. Inv /\ [Next]_vars => [Tokens!Next]_<<1..issued, Uses>>  BY SingleUseStep
<1> QED
  BY <1>1, <1>2, Invariance, PTL DEF Spec, KeysAreSingleUse, Tokens!Spec, Uses

\* A front-end rift-login has started presents the whole handoff it was started
\* for (write_sal_file closes the file, under a name of its own, before launch).
THEOREM FrontEndsPresentTheirOwn == Spec => []PresentsItsOwn
<1>1. Inv => PresentsItsOwn
  <2> SUFFICES ASSUME Inv, NEW s \in presented, front[s.front].by # None
               PROVE  s.text = [key |-> launcher[front[s.front].by].key, part |-> "all"]
    BY DEF PresentsItsOwn
  <2>1. s.front \in FrontEnds  BY Types DEF Inv
  <2>2. front[s.front].at = "connected" /\ s.text = front[s.front].text  BY DEF Inv, Presented
  <2> QED  BY <2>1, <2>2 DEF Inv, Started
<1> QED  BY <1>1, Invariance, PTL

\* A cut file is one being written, about to be deleted, or left by a kill
\* (the except clause of write_sal_file).
THEOREM CutFilesAreCleanedUp == Spec => []NoCutFileLeft
<1>1. Inv => NoCutFileLeft  BY DEF Inv
<1> QED  BY <1>1, Invariance, PTL
===============================================================================
