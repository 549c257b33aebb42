-------------------------- MODULE ExtensionsProofs --------------------------
(***************************************************************************)
(* Proofs about Extensions, for any number of admins, any grace and any    *)
(* crash limit and window.                                                 *)
(***************************************************************************)
EXTENDS Extensions, SequenceTheorems, TLAPS

\* NoStray is inductive once a server that is off has no process: then a new
\* server starts with an entry that says so.
ProcInv ==
    /\ NoStray
    /\ main = "off" => ~Alive

IInv == TypeOK /\ ProcInv

-----------------------------------------------------------------------------
(* Types, a group of variables at a time.                                  *)

EntryType ==
    /\ pid \in {0, 1}
    /\ term \in No..Grace
    /\ startIn \in 0..CrashLimit
    /\ crashes \in 0..CrashLimit
    /\ window \in 0..(CrashWindow + 1)

FlagType ==
    /\ db \in BOOLEAN
    /\ known \in BOOLEAN
    /\ present \in BOOLEAN
    /\ enabled \in BOOLEAN
    /\ abrupt \in BOOLEAN
    /\ state \in {"disabled", "starting", "running", "failed", "invalid"}

ProcType ==
    /\ proc \in {"none", "up", "listening"}
    /\ termed \in No..Grace
    /\ strays \in Nat
    /\ main \in {"off", "up", "join", "wait"}
    /\ waited \in 0..Grace
    /\ supervisor \in {"turn", "sleep", "done"}

ReqType == req \in [Admins -> [pc : {"idle", "store", "apply"}, want : BOOLEAN]]

LEMMA TypeParts == TypeOK <=> EntryType /\ FlagType /\ ProcType /\ ReqType
  BY DEF TypeOK, EntryType, FlagType, ProcType, ReqType

\* An age stays between No and its cap.
LEMMA CappedType ==
    ASSUME NEW max \in Nat, NEW low \in {No, 0}, NEW age \in low..max
    PROVE  Capped(age, max) \in low..max
  BY DEF Capped, No

LEMMA NextEntry == IInv /\ [Next]_vars => EntryType'
  <1> SUFFICES ASSUME IInv, [Next]_vars PROVE EntryType'
    OBVIOUS
  <1> USE ExtensionsAssumption DEF entryVars, procVars, serverVars
  <1>0. EntryType
    BY TypeParts DEF IInv
  <1>n. ASSUME NoEntry PROVE EntryType'
    BY <1>n DEF NoEntry, EntryType, No
  <1>1. CASE Tick
    <2>1. Capped(term, Grace) \in No..Grace
      BY <1>0, CappedType DEF EntryType
    <2>2. Capped(window, CrashWindow + 1) \in 0..(CrashWindow + 1)
      BY <1>0, CappedType DEF EntryType
    <2> QED
      BY <1>0, <1>1, <2>1, <2>2 DEF Tick, EntryType
  <1>2. CASE Rescan
    BY <1>0, <1>n, <1>2 DEF Rescan, Scan, EntryType
  <1>3. ASSUME NEW a \in Admins, Request(a) PROVE EntryType'
    BY <1>0, <1>3 DEF Request, CheckRequest, StoreRequest, ApplyRequest, EntryType
  <1>4. CASE Reconcile
    <2>1. CASE Unwanted
      BY <1>0, <2>1 DEF Unwanted, RequestStop, EntryType, No
    <2>2. CASE NoticeExit
      BY <1>0, <2>2 DEF NoticeExit, EntryType
    <2>3. CASE Launch
      BY <1>0, <2>3 DEF Launch, EntryType
    <2>4. CASE Watch \/ NothingToDo
      BY <1>0, <2>4 DEF Watch, NothingToDo, EntryType
    <2> QED
      BY <1>4, <2>1, <2>2, <2>3, <2>4 DEF Reconcile
  <1>5. CASE Start
    <2>1. CASE NoEntry
      BY <1>n, <2>1
    <2>2. CASE UNCHANGED <<pid, term, startIn, crashes, window, recent>>
      BY <1>0, <2>2 DEF EntryType
    <2> QED
      BY <1>5, <2>1, <2>2 DEF Start
  <1>6. CASE StopKill
    BY <1>n, <1>6 DEF StopKill
  <1>7. CASE UNCHANGED entryVars
    BY <1>0, <1>7 DEF EntryType
  <1> QED
    BY <1>1, <1>2, <1>3, <1>4, <1>5, <1>6, <1>7
    DEF Next, Listen, ProcExit, Wake, Stop, Stopping, StopTerm, vars

LEMMA NextFlags == IInv /\ [Next]_vars => FlagType'
  <1> SUFFICES ASSUME IInv, [Next]_vars PROVE FlagType'
    OBVIOUS
  <1> USE DEF entryVars, procVars, serverVars
  <1>0. FlagType
    BY TypeParts DEF IInv
  <1>n. ASSUME NoEntry, UNCHANGED <<db, abrupt>> \/ (UNCHANGED db /\ abrupt' \in BOOLEAN) PROVE FlagType'
    BY <1>0, <1>n DEF NoEntry, FlagType
  <1>1. CASE Rescan
    <2>1. PICK seen \in Dirs : Scan(seen)
      BY <1>1 DEF Rescan
    <2>2. UNCHANGED <<db, abrupt>>
      BY <1>1 DEF Rescan
    <2>3. StateAfterScan(seen) \in {"disabled", "starting", "running", "failed", "invalid"}
      BY <1>0 DEF StateAfterScan, FlagType
    <2> QED
      BY <1>0, <1>n, <2>1, <2>2, <2>3 DEF Scan, FlagType
  <1>2. ASSUME NEW a \in Admins, Request(a) PROVE FlagType'
    <2>1. req[a].want \in BOOLEAN
      BY TypeParts DEF IInv, ReqType
    <2>2. ASSUME NEW want \in BOOLEAN, CheckRequest(a, want) PROVE FlagType'
      BY <1>0, <2>2 DEF CheckRequest, FlagType
    <2>3. CASE StoreRequest(a)
      BY <1>0, <2>1, <2>3 DEF StoreRequest, FlagType
    <2>4. CASE ApplyRequest(a)
      <3>1. enabled' \in BOOLEAN
        BY <1>0, <2>1, <2>4 DEF ApplyRequest, FlagType
      <3>2. state' \in {"disabled", "starting", "running", "failed", "invalid"}
        BY <1>0, <2>4 DEF ApplyRequest, FlagType
      <3>3. UNCHANGED <<db, known, present, abrupt>>
        BY <2>4 DEF ApplyRequest
      <3> QED
        BY <1>0, <3>1, <3>2, <3>3 DEF FlagType
    <2> QED
      BY <1>2, <2>2, <2>3, <2>4 DEF Request
  <1>3. CASE Reconcile
    <2>1. CASE Unwanted
      <3>1. abrupt' \in BOOLEAN
        BY <1>0, <2>1 DEF Unwanted, RequestStop, FlagType
      <3> QED
        BY <1>0, <2>1, <3>1 DEF Unwanted, FlagType
    <2>2. CASE NoticeExit
      BY <1>0, <2>2 DEF NoticeExit, FlagType
    <2>3. CASE Launch
      BY <1>0, <2>3 DEF Launch, FlagType
    <2>4. CASE Watch \/ NothingToDo
      BY <1>0, <2>4 DEF Watch, NothingToDo, FlagType
    <2> QED
      BY <1>3, <2>1, <2>2, <2>3, <2>4 DEF Reconcile
  <1>4. CASE Start
    <2>1. PICK seen \in Dirs, on \in {db, FALSE} :
             IF seen = "absent" THEN NoEntry
             ELSE /\ known' = TRUE /\ present' = TRUE /\ enabled' = on
                  /\ state' = IF seen = "bad" THEN "invalid" ELSE "disabled"
      BY <1>4 DEF Start
    <2>2. UNCHANGED <<db, abrupt>>
      BY <1>4 DEF Start
    <2>3. on \in BOOLEAN
      BY <1>0 DEF FlagType
    <2>4. CASE seen = "absent"
      BY <1>n, <2>1, <2>2, <2>4
    <2>5. CASE seen # "absent"
      BY <1>0, <2>1, <2>2, <2>3, <2>5 DEF FlagType
    <2> QED
      BY <2>4, <2>5
  <1>5. CASE StopKill
    <2>1. abrupt' \in BOOLEAN
      BY <1>0, <1>5 DEF StopKill, FlagType
    <2> QED
      BY <1>n, <1>5, <2>1 DEF StopKill
  <1>6. CASE UNCHANGED <<db, known, present, enabled, abrupt, state>>
    BY <1>0, <1>6 DEF FlagType
  <1> QED
    BY <1>1, <1>2, <1>3, <1>4, <1>5, <1>6
    DEF Next, Listen, ProcExit, Tick, Wake, Stop, Stopping, StopTerm, vars

LEMMA NextProcType == IInv /\ [Next]_vars => ProcType'
  <1> SUFFICES ASSUME IInv, [Next]_vars PROVE ProcType'
    OBVIOUS
  <1> USE ExtensionsAssumption DEF entryVars, procVars, serverVars
  <1>0. ProcType
    BY TypeParts DEF IInv
  <1>1. CASE Tick
    <2>1. Capped(termed, Grace) \in No..Grace
      BY <1>0, CappedType DEF ProcType
    <2>2. Capped(waited, Grace) \in 0..Grace
      BY <1>0, CappedType DEF ProcType
    <2> QED
      BY <1>0, <1>1, <2>1, <2>2 DEF Tick, ProcType
  <1>2. CASE Listen \/ ProcExit
    BY <1>0, <1>2 DEF Listen, ProcExit, ProcType, No
  <1>3. CASE Rescan
    BY <1>0, <1>3 DEF Rescan, ProcType
  <1>4. ASSUME NEW a \in Admins, Request(a) PROVE ProcType'
    BY <1>0, <1>4 DEF Request, CheckRequest, StoreRequest, ApplyRequest, ProcType
  <1>5. CASE Reconcile
    <2>1. CASE Unwanted
      BY <1>0, <1>5, <2>1 DEF Reconcile, Unwanted, RequestStop, ProcType, No
    <2>2. CASE NoticeExit \/ Watch \/ NothingToDo
      BY <1>0, <1>5, <2>2 DEF Reconcile, NoticeExit, Watch, NothingToDo, ProcType
    <2>3. CASE Launch
      BY <1>0, <1>5, <2>3 DEF Reconcile, Launch, ProcType, No
    <2> QED
      BY <1>5, <2>1, <2>2, <2>3 DEF Reconcile
  <1>6. CASE Wake
    BY <1>0, <1>6 DEF Wake, ProcType, No
  <1>7. CASE Start \/ Stop
    BY <1>0, <1>7 DEF Start, Stop, ProcType
  <1>8. CASE StopTerm
    BY <1>0, <1>8 DEF StopTerm, ProcType, No
  <1>9. CASE StopKill
    BY <1>0, <1>9 DEF StopKill, ProcType, No
  <1>10. CASE UNCHANGED vars
    BY <1>0, <1>10 DEF vars, ProcType
  <1> QED
    BY <1>1, <1>2, <1>3, <1>4, <1>5, <1>6, <1>7, <1>8, <1>9, <1>10 DEF Next, Stopping

LEMMA NextReq == IInv /\ [Next]_vars => ReqType'
  <1> SUFFICES ASSUME IInv, [Next]_vars PROVE ReqType'
    OBVIOUS
  <1>0. ReqType
    BY TypeParts DEF IInv
  <1>1. ASSUME NEW a \in Admins, Request(a) PROVE ReqType'
    <2>1. ASSUME NEW want \in BOOLEAN, CheckRequest(a, want) PROVE ReqType'
      BY <1>0, <2>1 DEF CheckRequest, ReqType
    <2>2. CASE StoreRequest(a) \/ ApplyRequest(a)
      BY <1>0, <2>2 DEF StoreRequest, ApplyRequest, ReqType
    <2> QED
      BY <1>1, <2>1, <2>2 DEF Request
  <1>2. CASE StopKill
    BY <1>2 DEF StopKill, ReqType
  <1>3. CASE UNCHANGED req
    BY <1>0, <1>3 DEF ReqType
  <1> QED
    BY <1>1, <1>2, <1>3
    DEF Next, Listen, ProcExit, Tick, Rescan, Reconcile, Unwanted, NoticeExit, Launch, Watch,
        NothingToDo, Wake, Start, Stop, Stopping, StopTerm, vars

-----------------------------------------------------------------------------
(* Every process has its entry.                                            *)

LEMMA NextProc == IInv /\ [Next]_vars => ProcInv'
  <1> SUFFICES ASSUME IInv, [Next]_vars PROVE ProcInv'
    OBVIOUS
  <1> USE DEF entryVars, procVars, serverVars, Alive
  <1>0. ProcInv
    BY DEF IInv
  <1>1. CASE Listen
    BY <1>0, <1>1 DEF Listen, ProcInv, NoStray
  <1>2. CASE ProcExit \/ Tick
    BY <1>0, <1>2 DEF ProcExit, Tick, ProcInv, NoStray
  <1>3. CASE Rescan
    <2>1. UNCHANGED <<proc, strays, main>>
      BY <1>3 DEF Rescan
    <2>2. ASSUME Alive PROVE known' = TRUE /\ pid' # 0
      <3>1. known = TRUE /\ pid # 0
        BY <1>0, <2>2, TypeParts, Zenon DEF ProcInv, NoStray, IInv, FlagType
      <3>2. PICK seen \in Dirs : Scan(seen)
        BY <1>3 DEF Rescan
      <3> QED
        BY <3>1, <3>2 DEF Scan, Dropped
    <2> QED
      BY <1>0, <2>1, <2>2 DEF ProcInv, NoStray
  <1>4. ASSUME NEW a \in Admins, Request(a) PROVE ProcInv'
    BY <1>0, <1>4 DEF Request, CheckRequest, StoreRequest, ApplyRequest, ProcInv, NoStray
  <1>5. CASE Reconcile
    <2>0. UNCHANGED main /\ main # "off"
      BY <1>5 DEF Reconcile, Unlocked, Unwanted, NoticeExit, Launch, Watch, NothingToDo
    <2>1. CASE Unwanted
      BY <1>0, <2>0, <2>1 DEF Unwanted, RequestStop, ProcInv, NoStray
    <2>2. CASE NoticeExit \/ Watch \/ NothingToDo
      BY <1>0, <2>0, <2>2 DEF NoticeExit, Watch, NothingToDo, ProcInv, NoStray
    <2>3. CASE Launch
      BY <1>0, <2>0, <2>3 DEF Launch, MayStart, Wanted, ProcInv, NoStray
    <2> QED
      BY <1>5, <2>1, <2>2, <2>3 DEF Reconcile
  <1>6. CASE Wake \/ Stop \/ StopTerm
    BY <1>0, <1>6 DEF Wake, Stop, StopTerm, ProcInv, NoStray
  <1>7. CASE Start
    BY <1>0, <1>7 DEF Start, ProcInv, NoStray
  <1>8. CASE StopKill
    BY <1>0, <1>8 DEF StopKill, ProcInv, NoStray
  <1>9. CASE UNCHANGED vars
    BY <1>0, <1>9 DEF vars, ProcInv, NoStray
  <1> QED
    BY <1>1, <1>2, <1>3, <1>4, <1>5, <1>6, <1>7, <1>8, <1>9 DEF Next, Stopping

\* What extensions.c keeps true of an extension, step by step.
THEOREM Inductive == Spec => []IInv
  <1>1. Init => IInv
    <2> SUFFICES ASSUME Init PROVE IInv
      OBVIOUS
    <2>1. EntryType /\ ProcType
      BY ExtensionsAssumption DEF Init, EntryType, ProcType, No
    <2>2. FlagType
      BY DEF Init, FlagType
    <2>3. ReqType
      BY DEF Init, ReqType
    <2>4. ProcInv
      BY DEF Init, ProcInv, NoStray, Alive
    <2> QED
      BY <2>1, <2>2, <2>3, <2>4, TypeParts DEF IInv
  <1>2. IInv /\ [Next]_vars => IInv'
    <2> SUFFICES ASSUME IInv, [Next]_vars PROVE IInv'
      OBVIOUS
    <2>1. EntryType' /\ FlagType' /\ ProcType' /\ ReqType'
      BY NextEntry, NextFlags, NextProcType, NextReq
    <2>2. TypeOK'
      BY <2>1 DEF TypeOK, EntryType, FlagType, ProcType, ReqType
    <2> QED
      BY <2>2, NextProc DEF IInv
  <1> QED
    BY <1>1, <1>2, PTL DEF Spec

\* The entry, the process and the requests always have their types: the count
\* of crashes and the wait before a restart never pass the limit.
THEOREM TypeCorrect == Spec => []TypeOK
  BY Inductive, PTL DEF IInv

\* No process is started beside another or left behind, whatever the scans,
\* the admins and extensions_stop() do in between.
THEOREM NoStrayThm == Spec => []NoStray
  <1>1. IInv => NoStray
    BY DEF IInv, ProcInv
  <1> QED
    BY <1>1, Inductive, PTL

-----------------------------------------------------------------------------
(* Failures.                                                               *)

Ages == 0..(CrashWindow + 1)

\* The crash count stands for real exits: the last "crashes" of them, since
\* the extension was last enabled, are no older than the window.  One that is
\* given up has no process.
FailInv ==
    /\ recent \in Seq(Ages)
    /\ Len(recent) <= CrashLimit
    /\ crashes <= Len(recent)
    /\ \A i \in 1..Len(recent) : i > Len(recent) - crashes => recent[i] <= window
    /\ state = "failed" => pid = 0

\* How many of l + 1 exits are kept, and the first of them.
Kept(l) == IF l < CrashLimit THEN l + 1 ELSE CrashLimit
FirstKept(l) == IF l + 1 > CrashLimit THEN l + 1 - CrashLimit + 1 ELSE 1

LEMMA KeptNumbers ==
    ASSUME NEW l \in Nat, l <= CrashLimit
    PROVE  /\ FirstKept(l) \in Int /\ FirstKept(l) >= 1 /\ FirstKept(l) <= l + 1
           /\ Kept(l) \in Nat /\ Kept(l) >= 1 /\ Kept(l) <= CrashLimit
           /\ Kept(l) = l + 1 - FirstKept(l) + 1
           /\ Kept(l) = l \/ Kept(l) = l + 1
  <1> USE ExtensionsAssumption DEF Kept, FirstKept
  <1>1. CASE l < CrashLimit
    BY <1>1
  <1>2. CASE l = CrashLimit
    BY <1>2
  <1> QED
    BY <1>1, <1>2

\* Where a kept exit was before.
LEMMA KeptPlace ==
    ASSUME NEW l \in Nat, NEW n \in Nat, n = l \/ n = l + 1, NEW i \in 1..(n - 1)
    PROVE  i + (l + 1 - n) \in 1..l
  <1>1. i \in Int /\ i >= 1 /\ i <= n - 1
    OBVIOUS
  <1> QED
    BY <1>1

LEMMA KeptShift ==
    ASSUME NEW l \in Nat, NEW n \in Nat, NEW m \in Int, n = l + 1 - m + 1, NEW i \in 1..n
    PROVE  m + i - 1 = i + (l + 1 - n)
  OBVIOUS

LEMMA KeptRecent ==
    ASSUME NEW l \in Nat, NEW n \in Nat, NEW i \in Int, NEW c \in Int, NEW d \in Int,
           n = l \/ n = l + 1, d <= c + 1, i > n - d
    PROVE  i + (l + 1 - n) > l - c
  <1>1. CASE n = l
    BY <1>1
  <1>2. CASE n = l + 1
    BY <1>2
  <1> QED
    BY <1>1, <1>2

LEMMA Antisymmetry == ASSUME NEW a \in Int, NEW b \in Int, a <= b, b <= a PROVE a = b
  OBVIOUS

\* The exits kept once one more has happened: the newest is new, the others
\* are those there were, the oldest dropped when there were enough.
LEMMA LastExitsOne ==
    ASSUME NEW s \in Seq(Ages), Len(s) <= CrashLimit, NEW n, n = Kept(Len(s))
    PROVE  /\ LastExits(Append(s, 0)) \in Seq(Ages)
           /\ Len(LastExits(Append(s, 0))) = n
           /\ LastExits(Append(s, 0))[n] = 0
           /\ \A i \in 1..(n - 1) : LastExits(Append(s, 0))[i] = s[i + (Len(s) + 1 - n)]
  <1> USE ExtensionsAssumption
  <1> DEFINE t == Append(s, 0)
             m == IF Len(t) > CrashLimit THEN Len(t) - CrashLimit + 1 ELSE 1
  <1>0. 0 \in Ages /\ Len(s) \in Nat
    BY LenProperties DEF Ages
  <1>1. /\ t \in Seq(Ages) /\ Len(t) = Len(s) + 1 /\ t[Len(s) + 1] = 0
        /\ \A i \in 1..Len(s) : t[i] = s[i]
    BY <1>0, AppendProperties
  <1>m. m = FirstKept(Len(s))
    BY <1>1 DEF FirstKept
  <1> HIDE DEF t, m
  <1>2. /\ m \in Int /\ m >= 1 /\ m <= Len(s) + 1
        /\ n \in Nat /\ n >= 1 /\ n = Len(s) + 1 - m + 1
        /\ n = Len(s) \/ n = Len(s) + 1
    BY <1>0, <1>m, KeptNumbers
  <1>3. \A i \in m..Len(t) : t[i] \in Ages
    BY <1>0, <1>1, <1>2, ElementOfSeq
  <1>4. /\ SubSeq(t, m, Len(t)) \in Seq(Ages)
        /\ Len(SubSeq(t, m, Len(t))) = IF m <= Len(t) THEN Len(t) - m + 1 ELSE 0
        /\ \A i \in 1..(Len(t) - m + 1) : SubSeq(t, m, Len(t))[i] = t[m + i - 1]
    BY <1>0, <1>1, <1>2, <1>3, SubSeqProperties
  <1>5. LastExits(Append(s, 0)) = SubSeq(t, m, Len(t))
    BY DEF LastExits, t, m
  <1>6. Len(t) - m + 1 = n /\ m <= Len(t) /\ m + n - 1 = Len(s) + 1
    BY <1>0, <1>1, <1>2
  <1>7. /\ Len(SubSeq(t, m, Len(t))) = n
        /\ \A i \in 1..n : SubSeq(t, m, Len(t))[i] = t[m + i - 1]
    BY <1>4, <1>6
  <1>8. SubSeq(t, m, Len(t))[n] = 0
    <2>1. n \in 1..n
      BY <1>2
    <2> QED
      BY <1>1, <1>6, <1>7, <2>1
  <1>9. ASSUME NEW i \in 1..(n - 1)
        PROVE  SubSeq(t, m, Len(t))[i] = s[i + (Len(s) + 1 - n)]
    <2>1. i \in 1..n
      BY <1>2
    <2>2. m + i - 1 = i + (Len(s) + 1 - n)
      BY <1>0, <1>2, <2>1, KeptShift
    <2>3. i + (Len(s) + 1 - n) \in 1..Len(s)
      BY <1>0, <1>2, KeptPlace
    <2> QED
      BY <1>1, <1>7, <2>1, <2>2, <2>3
  <1> QED
    BY <1>4, <1>5, <1>7, <1>8, <1>9

\* One more exit, counted: the newest n of the kept ones are within the window.
LEMMA ExitCounted ==
    ASSUME IInv, FailInv, NoticeExit
    PROVE  /\ recent' \in Seq(Ages)
           /\ Len(recent') <= CrashLimit
           /\ crashes' <= Len(recent')
           /\ \A i \in 1..Len(recent') : i > Len(recent') - crashes' => recent'[i] <= window'
           /\ state' = "failed" => crashes' = CrashLimit
  <1> USE ExtensionsAssumption
  <1> DEFINE n == Kept(Len(recent))
  <1>0. /\ recent \in Seq(Ages) /\ Len(recent) \in Nat /\ Len(recent) <= CrashLimit
        /\ crashes <= Len(recent)
        /\ crashes \in 0..CrashLimit /\ window \in 0..(CrashWindow + 1)
    BY LenProperties, TypeParts DEF FailInv, IInv, EntryType
  <1>1. /\ recent' \in Seq(Ages) /\ Len(recent') = n /\ recent'[n] = 0
        /\ \A i \in 1..(n - 1) : recent'[i] = recent[i + (Len(recent) + 1 - n)]
    BY <1>0, LastExitsOne DEF NoticeExit
  <1>2. /\ crashes' = IF WindowOver THEN 1 ELSE IF crashes < CrashLimit THEN crashes + 1 ELSE crashes
        /\ window' = IF WindowOver THEN 0 ELSE window
        /\ state' = "failed" => crashes' >= CrashLimit
    BY DEF NoticeExit
  <1>3. /\ n \in Nat /\ n <= CrashLimit /\ n >= 1
        /\ n = Len(recent) \/ n = Len(recent) + 1
    BY <1>0, KeptNumbers
  <1>4. crashes' <= n /\ crashes' \in 0..CrashLimit /\ window' \in Nat
    <2>1. crashes' \in 0..CrashLimit /\ window' \in Nat
      BY <1>0, <1>2
    <2>2. CASE WindowOver
      BY <1>2, <1>3, <2>1, <2>2
    <2>3. CASE ~WindowOver
      <3>1. crashes' <= crashes + 1 /\ crashes' <= CrashLimit
        BY <1>0, <1>2, <2>1, <2>3
      <3>2. n = Len(recent) + 1 \/ n = CrashLimit
        BY DEF Kept
      <3> QED
        BY <1>0, <2>1, <3>1, <3>2
    <2> QED
      BY <2>1, <2>2, <2>3
  <1> HIDE DEF n
  <1>5. ASSUME NEW i \in 1..n, i > n - crashes' PROVE recent'[i] <= window'
    <2>1. CASE i = n
      BY <1>1, <1>4, <2>1
    <2>2. CASE i # n
      <3>1. i \in 1..(n - 1)
        BY <1>3, <2>2
      <3>2. ~WindowOver
        BY <1>2, <1>3, <1>5, <3>1
      <3>3. window' = window /\ crashes' <= crashes + 1
        BY <1>0, <1>2, <3>2
      <3>4. /\ i + (Len(recent) + 1 - n) \in 1..Len(recent)
            /\ i + (Len(recent) + 1 - n) > Len(recent) - crashes
        <4>1. i \in Int /\ crashes' \in Int /\ crashes \in Int
          BY <1>0, <1>4, <3>1
        <4> QED
          BY <1>0, <1>3, <1>5, <3>1, <3>3, <4>1, KeptPlace, KeptRecent
      <3> QED
        BY <1>1, <3>1, <3>3, <3>4 DEF FailInv
    <2> QED
      BY <2>1, <2>2
  <1> QED
    BY <1>1, <1>2, <1>3, <1>4, <1>5

LEMMA TickAges ==
    ASSUME IInv, FailInv, Tick
    PROVE  /\ recent' \in Seq(Ages) /\ Len(recent') = Len(recent)
           /\ \A i \in 1..Len(recent) : recent[i] <= window => recent'[i] <= window'
  <1> USE ExtensionsAssumption
  <1>0. /\ recent \in Seq(Ages) /\ Len(recent) \in Nat /\ DOMAIN recent = 1..Len(recent)
        /\ window \in 0..(CrashWindow + 1)
    BY LenProperties, TypeParts DEF FailInv, IInv, EntryType
  <1>1. \A i \in 1..Len(recent) : recent[i] \in Ages
    BY <1>0, ElementOfSeq
  <1>2. \A i \in 1..Len(recent) : Capped(recent[i], CrashWindow + 1) \in Ages
    BY <1>1 DEF Capped, Ages, No
  <1>3. recent' = [i \in 1..Len(recent) |-> Capped(recent[i], CrashWindow + 1)]
    BY <1>0 DEF Tick
  <1>4. recent' \in [1..Len(recent) -> Ages]
    BY <1>2, <1>3
  <1>5. recent' \in Seq(Ages) /\ Len(recent') = Len(recent)
    BY <1>0, <1>4
  <1>6. ASSUME NEW i \in 1..Len(recent), recent[i] <= window PROVE recent'[i] <= window'
    <2>1. recent'[i] = Capped(recent[i], CrashWindow + 1) /\ window' = Capped(window, CrashWindow + 1)
      BY <1>3 DEF Tick
    <2> QED
      BY <1>0, <1>1, <1>6, <2>1 DEF Capped, Ages, No
  <1> QED
    BY <1>5, <1>6

LEMMA NextFail == IInv /\ FailInv /\ [Next]_vars => FailInv'
  <1> SUFFICES ASSUME IInv, FailInv, [Next]_vars PROVE FailInv'
    OBVIOUS
  <1> USE ExtensionsAssumption DEF entryVars, procVars, serverVars
  <1>0. crashes \in 0..CrashLimit /\ Len(recent) \in Nat
    BY LenProperties, TypeParts DEF IInv, EntryType, FailInv
  <1>1. ASSUME UNCHANGED <<recent, crashes, window>>, state' = "failed" => pid' = 0 PROVE FailInv'
    BY <1>1 DEF FailInv
  <1>2. ASSUME crashes' = 0, recent' = <<>>, state' = "failed" => pid' = 0 PROVE FailInv'
    BY <1>2 DEF FailInv
  <1>3. ASSUME NoEntry PROVE FailInv'
    BY <1>2, <1>3 DEF NoEntry
  <1>4. CASE Tick
    <2>1. crashes' = crashes /\ state' = state /\ pid' = pid
      BY <1>4 DEF Tick
    <2> QED
      BY <1>4, <2>1, TickAges DEF FailInv
  <1>5. CASE Rescan
    <2>1. PICK seen \in Dirs : Scan(seen)
      BY <1>5 DEF Rescan
    <2>2. CASE NoEntry
      BY <1>3, <2>2
    <2>3. CASE UNCHANGED <<recent, crashes, window, pid, state>>
      BY <1>1, <2>3 DEF FailInv
    <2>4. CASE state' = StateAfterScan(seen) /\ UNCHANGED <<recent, crashes, window, pid>>
      BY <1>1, <2>4 DEF StateAfterScan, FailInv
    <2> QED
      BY <2>1, <2>2, <2>3, <2>4 DEF Scan
  <1>6. ASSUME NEW a \in Admins, Request(a) PROVE FailInv'
    <2>1. CASE UNCHANGED <<recent, crashes, window, pid, state>>
      BY <1>1, <2>1 DEF FailInv
    <2>2. CASE ApplyRequest(a) /\ known /\ req[a].want
      BY <1>2, <2>2 DEF ApplyRequest, FailInv
    <2>3. CASE ApplyRequest(a) /\ ~(known /\ req[a].want)
      <3>1. UNCHANGED <<recent, crashes, window, pid, state>>
        BY <2>3 DEF ApplyRequest
      <3> QED
        BY <2>1, <3>1
    <2> QED
      BY <1>6, <2>1, <2>2, <2>3 DEF Request, CheckRequest, StoreRequest
  <1>7. CASE Reconcile
    <2>1. CASE Unwanted
      <3>1. UNCHANGED <<recent, crashes, window>> /\ state' # "failed"
        BY <2>1 DEF Unwanted
      <3> QED
        BY <1>1, <3>1
    <2>2. CASE NoticeExit
      <3>1. pid' = 0
        BY <2>2 DEF NoticeExit
      <3> QED
        BY <2>2, <3>1, ExitCounted DEF FailInv
    <2>3. CASE Launch
      <3>1. UNCHANGED <<recent, crashes, window>> /\ (state' = "failed" => pid' = 0)
        BY <2>3 DEF Launch, MayStart
      <3> QED
        BY <1>1, <3>1
    <2>4. CASE Watch
      <3>1. UNCHANGED <<recent, crashes, window>> /\ state' # "failed"
        BY <2>4 DEF Watch
      <3> QED
        BY <1>1, <3>1
    <2>5. CASE NothingToDo
      BY <1>1, <2>5 DEF NothingToDo, FailInv
    <2> QED
      BY <1>7, <2>1, <2>2, <2>3, <2>4, <2>5 DEF Reconcile
  <1>8. CASE Start
    <2>1. CASE NoEntry
      BY <1>3, <2>1
    <2>2. CASE UNCHANGED <<pid, term, startIn, crashes, window, recent>> /\ state' # "failed"
      BY <1>1, <2>2
    <2> QED
      BY <1>8, <2>1, <2>2 DEF Start
  <1>9. CASE StopKill
    BY <1>3, <1>9 DEF StopKill
  <1>10. CASE UNCHANGED <<recent, crashes, window, pid, state>>
    BY <1>1, <1>10 DEF FailInv
  <1> QED
    BY <1>4, <1>5, <1>6, <1>7, <1>8, <1>9, <1>10
    DEF Next, Listen, ProcExit, Wake, Stop, Stopping, StopTerm, vars

\* The two halves of FailedSound, a step at a time.
FailStep ==
    state # "failed" /\ state' = "failed" =>
        \/ pid = 0
        \/ Len(recent') = CrashLimit /\ \A i \in DOMAIN recent' : recent'[i] <= CrashWindow

StayStep ==
    main = "up" /\ state = "failed" /\ state' # "failed" =>
        \/ \E a \in Admins : req[a].pc = "apply" /\ req'[a].pc = "idle" /\ req[a].want
        \/ ~enabled \/ ~present
        \/ state' = "invalid" \/ ~known'

LEMMA EveryFailStep == IInv /\ FailInv /\ [Next]_vars => FailStep
  <1> SUFFICES ASSUME IInv, FailInv, [Next]_vars, state # "failed", state' = "failed", pid # 0
               PROVE  Len(recent') = CrashLimit /\ \A i \in DOMAIN recent' : recent'[i] <= CrashWindow
    BY DEF FailStep
  <1> USE ExtensionsAssumption DEF entryVars, procVars, serverVars
  <1>1. NoticeExit
    <2>1. ~Rescan
      BY DEF Rescan, Scan, NoEntry, StateAfterScan
    <2>2. \A a \in Admins : ~Request(a)
      BY DEF Request, CheckRequest, StoreRequest, ApplyRequest
    <2>3. ~Start /\ ~StopKill
      BY DEF Start, StopKill, NoEntry
    <2>4. ~Unwanted /\ ~Launch /\ ~Watch /\ ~NothingToDo
      BY DEF Unwanted, Launch, MayStart, Watch, NothingToDo
    <2>5. ~UNCHANGED state
      OBVIOUS
    <2> QED
      BY <2>1, <2>2, <2>3, <2>4, <2>5 DEF Next, Listen, ProcExit, Tick, Reconcile, Wake, Stop, Stopping, StopTerm, vars
  <1>2. /\ recent' \in Seq(Ages) /\ Len(recent') <= CrashLimit /\ crashes' <= Len(recent')
        /\ \A i \in 1..Len(recent') : i > Len(recent') - crashes' => recent'[i] <= window'
        /\ crashes' = CrashLimit
    BY <1>1, ExitCounted
  <1>3. Len(recent') \in Nat /\ DOMAIN recent' = 1..Len(recent')
    BY <1>2, LenProperties
  <1>4. Len(recent') = CrashLimit
    <2>1. Len(recent') <= CrashLimit /\ CrashLimit <= Len(recent')
      BY <1>2
    <2>2. Len(recent') \in Int /\ CrashLimit \in Int
      BY <1>3
    <2> QED
      BY <2>1, <2>2, Antisymmetry
  <1>5. window' \in 0..CrashWindow
    BY <1>1, TypeParts DEF NoticeExit, WindowOver, IInv, EntryType
  <1>6. ASSUME NEW i \in 1..Len(recent') PROVE recent'[i] <= CrashWindow
    <2>1. recent'[i] <= window'
      BY <1>2, <1>3, <1>4
    <2>2. recent'[i] \in Ages
      BY <1>2, ElementOfSeq
    <2> QED
      BY <1>5, <2>1, <2>2 DEF Ages
  <1> QED
    BY <1>3, <1>4, <1>6

LEMMA EveryStayStep == IInv /\ FailInv /\ [Next]_vars => StayStep
  <1> SUFFICES ASSUME IInv, FailInv, [Next]_vars, main = "up", state = "failed", state' # "failed",
                      enabled, present, state' # "invalid", known'
               PROVE  \E a \in Admins : req[a].pc = "apply" /\ req'[a].pc = "idle" /\ req[a].want
    BY DEF StayStep
  <1> USE DEF entryVars, procVars, serverVars
  <1>0. pid = 0
    BY DEF FailInv
  <1>1. ~Rescan
    BY DEF Rescan, Scan, NoEntry, StateAfterScan
  <1>2. ~Reconcile
    BY <1>0 DEF Reconcile, Unwanted, Wanted, NoticeExit, Launch, MayStart, Watch, NothingToDo
  <1>3. ~Start /\ ~StopKill /\ ~UNCHANGED state
    BY DEF Start, StopKill
  <1>4. PICK a \in Admins : Request(a)
    BY <1>1, <1>2, <1>3 DEF Next, Listen, ProcExit, Tick, Wake, Stop, Stopping, StopTerm, vars
  <1>5. ApplyRequest(a) /\ req[a].want
    BY <1>4 DEF Request, CheckRequest, StoreRequest, ApplyRequest
  <1>6. req[a].pc = "apply" /\ req'[a].pc = "idle"
    BY <1>5, TypeParts DEF ApplyRequest, IInv, ReqType
  <1> QED
    BY <1>5, <1>6

\* An extension is given up for its exits only after CrashLimit of them within
\* CrashWindow, and stays given up until an admin or a change of the extension
\* brings it back: for any limit, window and number of admins.
THEOREM FailedSoundThm == Spec => FailedSound
  <1>1. Init => FailInv
    BY ExtensionsAssumption DEF Init, FailInv
  <1>2. Spec => []FailInv
    BY <1>1, NextFail, Inductive, PTL DEF Spec
  <1>3. Spec => [][FailStep]_vars
    BY <1>2, EveryFailStep, Inductive, PTL DEF Spec
  <1>4. Spec => [][StayStep]_vars
    BY <1>2, EveryStayStep, Inductive, PTL DEF Spec
  <1> QED
    BY <1>3, <1>4 DEF FailedSound, FailedJustified, FailedStays, FailStep, StayStep
=============================================================================
