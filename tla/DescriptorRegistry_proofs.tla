---------------------- MODULE DescriptorRegistry_proofs ----------------------
(***************************************************************************)
(* Proofs about the registration of file descriptors, for any number of    *)
(* callers, and any import graph without cycles.  While a file's imports   *)
(* are ensured one by one, other callers register files; what the caller   *)
(* relies on when it gets to the file itself is that an import it has      *)
(* ticked off stays registered, or is the one it is at work on.            *)
(***************************************************************************)
EXTENDS DescriptorRegistry, SequenceTheorems, TLAPS

\* The file that frame i of s registers, and its imports yet to be ensured.
FileAt(s, i) == s[i].file
DepsAt(s, i) == s[i].deps

\* The file in the frame above i, if there is one.
Above(s, i) == IF i < Len(s) THEN {FileAt(s, i + 1)} ELSE {}

\* A recursion s is sound for the registered files fs: an import of a frame's
\* file that is ticked off is registered, or in the frame above; what is in the
\* frame above, or not ticked off, is an import; frames go down the graph.
Sound(s, fs) ==
  /\ s \in Seq(Frames)
  /\ \A i \in 1..Len(s) :
       /\ Deps[FileAt(s, i)] \ DepsAt(s, i) \subseteq fs \cup Above(s, i)
       /\ Above(s, i) \cup DepsAt(s, i) \subseteq Deps[FileAt(s, i)]
  /\ \A i, j \in 1..Len(s) : i < j => FileAt(s, j) \in TransDeps(FileAt(s, i))

StackInv == \A c \in Callers : Sound(stack[c], files)

\* The recursion is at work only between two files of the batch.
ControlInv ==
  \A c \in Callers :
    /\ pc[c] \in {"deps", "fetch"} => stack[c] # << >>
    /\ pc[c] \notin {"deps", "fetch", "failed"} => stack[c] = << >>

\* The wanted type's file is registered in the end: till then it is to be
\* visited, or at the bottom of the recursion.
WantInv ==
  \A c \in Callers :
    LET f == FileOf[want[c]]
    IN  /\ pc[c] = "visit" => f \in visit[c] \cup files
        /\ pc[c] \in {"deps", "fetch"} => f \in visit[c] \cup files \cup {FileAt(stack[c], 1)}
        /\ pc[c] \in {"recheck", "found"} => f \in files

\* Types are registered with their files.
TypesInv == types = {t \in Types : FileOf[t] \in files}

IInv ==
  /\ TypeOK /\ StackInv /\ ControlInv /\ WantInv /\ TypesInv
  /\ Closed(files) /\ FailsOnlyIfUnserved /\ DescriptorsAtHand

\* No file is twice in the recursion of one resolution.
NoFileTwice ==
  \A c \in Callers : \A i, j \in DOMAIN stack[c] :
    stack[c][i].file = stack[c][j].file => i = j

\* Whatever a found type's definition reaches is registered.
FoundIsComplete ==
  \A c \in Callers :
    pc[c] = "found" => {FileOf[want[c]]} \cup TransDeps(FileOf[want[c]]) \subseteq files
-----------------------------------------------------------------------------
\* An import is needed, and so is what a needed file imports.
LEMMA TransDepsClosed ==
  ASSUME NEW f \in Files
  PROVE  /\ TransDeps(f) \subseteq Files
         /\ Deps[f] \subseteq TransDeps(f)
         /\ \A g \in TransDeps(f) : Deps[g] \subseteq TransDeps(f)
<1> USE RegistryAssumption DEF TransDeps, Closed
<1>1. Deps[f] \subseteq TransDeps(f)
  OBVIOUS
<1>2. ASSUME NEW g \in TransDeps(f), NEW d \in Deps[g] PROVE d \in TransDeps(f)
  BY <1>2
<1> QED
  BY <1>1, <1>2

\* A closed set of files that has f has whatever f needs.
LEMMA ClosedHasTransDeps ==
  ASSUME NEW S \in SUBSET Files, Closed(S), NEW f \in S
  PROVE  TransDeps(f) \subseteq S
<1> QED
  BY DEF TransDeps, Closed

\* The target sends files, among them the one it is asked for.
LEMMA ReplyHasFile ==
  ASSUME NEW f \in Files, NEW reply \in Replies(f)
  PROVE  reply \subseteq Files /\ f \in reply
<1> QED
  BY TransDepsClosed DEF Replies

\* What is in a frame, and how many there are.
LEMMA FramesTyped ==
  ASSUME NEW s \in Seq(Frames)
  PROVE  /\ Len(s) \in Nat
         /\ s # << >> => Len(s) \in Nat \ {0}
         /\ \A i \in 1..Len(s) : /\ FileAt(s, i) \in Files
                                 /\ DepsAt(s, i) \subseteq Files
<1>1. ASSUME NEW i \in 1..Len(s) PROVE s[i] \in Frames
  BY ElementOfSeq
<1> QED
  BY <1>1, EmptySeq, LenProperties DEF Frames, FileAt, DepsAt

\* Ticking an import off touches the imports of the last frame only.
LEMMA TickedOff ==
  ASSUME NEW s \in Seq(Frames), s # << >>, NEW d
  PROVE  /\ WithoutDep(s, d) \in Seq(Frames)
         /\ Len(WithoutDep(s, d)) = Len(s)
         /\ \A i \in 1..Len(s) :
              /\ FileAt(WithoutDep(s, d), i) = FileAt(s, i)
              /\ i # Len(s) => DepsAt(WithoutDep(s, d), i) = DepsAt(s, i)
         /\ DepsAt(WithoutDep(s, d), Len(s)) = DepsAt(s, Len(s)) \ {d}
<1> DEFINE n == Len(s)
           frame == [s[n] EXCEPT !.deps = @ \ {d}]
           t == [s EXCEPT ![n] = frame]
<1>1. n \in 1..n /\ s[n] \in Frames
  BY EmptySeq, ElementOfSeq
<1>2. frame \in Frames /\ frame.file = s[n].file /\ frame.deps = s[n].deps \ {d}
  BY <1>1 DEF Frames
<1>3. WithoutDep(s, d) = t
  BY DEF WithoutDep
<1> HIDE DEF frame
<1>4. t \in Seq(Frames) /\ Len(t) = n
  BY <1>1, <1>2, ExceptSeq
<1>5. \A i \in 1..n : t[i] = IF i = n THEN frame ELSE s[i]
  BY <1>1, <1>2, ExceptSeq
<1> HIDE DEF t, n
<1>6. \A i \in 1..n : /\ FileAt(t, i) = FileAt(s, i)
                      /\ i # n => DepsAt(t, i) = DepsAt(s, i)
  BY <1>2, <1>5 DEF FileAt, DepsAt
<1>7. DepsAt(t, n) = DepsAt(s, n) \ {d}
  BY <1>1, <1>2, <1>5 DEF DepsAt
<1> QED
  BY <1>3, <1>4, <1>6, <1>7 DEF n

\* A frame put on top of s.
LEMMA Pushed ==
  ASSUME NEW s \in Seq(Frames), NEW f \in Files
  PROVE  LET t == Append(s, [file |-> f, deps |-> Deps[f]])
         IN  /\ t \in Seq(Frames)
             /\ Len(t) = Len(s) + 1
             /\ \A i \in 1..Len(s) : /\ FileAt(t, i) = FileAt(s, i)
                                     /\ DepsAt(t, i) = DepsAt(s, i)
             /\ FileAt(t, Len(s) + 1) = f /\ DepsAt(t, Len(s) + 1) = Deps[f]
<1>1. [file |-> f, deps |-> Deps[f]] \in Frames
  BY RegistryAssumption DEF Frames
<1> QED
  BY <1>1, AppendProperties DEF FileAt, DepsAt

\* Files registered by others leave a recursion sound.
LEMMA SoundGrows ==
  ASSUME NEW s, NEW fs, NEW gs, Sound(s, fs), fs \subseteq gs
  PROVE  Sound(s, gs)
<1> QED
  BY DEF Sound

\* The recursion begins with one frame.
LEMMA SoundEntered ==
  ASSUME NEW fs, NEW f \in Files
  PROVE  /\ Sound(Append(<< >>, [file |-> f, deps |-> Deps[f]]), fs)
         /\ Len(Append(<< >>, [file |-> f, deps |-> Deps[f]])) = 1
         /\ FileAt(Append(<< >>, [file |-> f, deps |-> Deps[f]]), 1) = f
<1> DEFINE t == Append(<< >>, [file |-> f, deps |-> Deps[f]])
<1>1. << >> \in Seq(Frames) /\ Len(<< >>) = 0
  OBVIOUS
<1>2. /\ t \in Seq(Frames) /\ Len(t) = Len(<< >>) + 1
      /\ FileAt(t, Len(<< >>) + 1) = f /\ DepsAt(t, Len(<< >>) + 1) = Deps[f]
  BY <1>1, Pushed
<1> HIDE DEF t
<1>3. Len(t) = 1 /\ FileAt(t, 1) = f /\ DepsAt(t, 1) = Deps[f]
  BY <1>1, <1>2
<1>4. Sound(t, fs)
  BY <1>2, <1>3 DEF Sound, Above
<1> QED
  BY <1>3, <1>4 DEF t

\* An import that is registered may be ticked off.
LEMMA SoundTickedOff ==
  ASSUME NEW s, NEW fs, Sound(s, fs), s # << >>, NEW d \in DepsAt(s, Len(s)) \cap fs
  PROVE  /\ Sound(WithoutDep(s, d), fs)
         /\ Len(WithoutDep(s, d)) = Len(s)
         /\ \A i \in 1..Len(s) : FileAt(WithoutDep(s, d), i) = FileAt(s, i)
<1> DEFINE n == Len(s)
           t == WithoutDep(s, d)
<1>1. s \in Seq(Frames)
  BY DEF Sound
<1>2. n \in Nat \ {0}
  BY <1>1, FramesTyped
<1>3. /\ t \in Seq(Frames) /\ Len(t) = n
      /\ \A i \in 1..n : /\ FileAt(t, i) = FileAt(s, i)
                         /\ i # n => DepsAt(t, i) = DepsAt(s, i)
      /\ DepsAt(t, n) = DepsAt(s, n) \ {d}
  BY <1>1, TickedOff
<1> HIDE DEF t, n
<1>4. ASSUME NEW i \in 1..n PROVE Above(t, i) = Above(s, i)
  <2>1. CASE i = n
    BY <1>2, <1>3, <2>1 DEF Above, n
  <2>2. CASE i # n
    <3>1. i + 1 \in 1..n /\ i < n
      BY <1>2, <2>2
    <3> QED
      BY <1>3, <3>1 DEF Above, n
  <2> QED
    BY <2>1, <2>2
<1>5. \A i \in 1..n : Deps[FileAt(t, i)] \ DepsAt(t, i) \subseteq fs \cup Above(t, i)
  BY <1>3, <1>4 DEF Sound, n
<1>6. Sound(t, fs)
  BY <1>3, <1>4, <1>5 DEF Sound, n
<1> QED
  BY <1>3, <1>6 DEF t, n

\* The recursion goes on into an import, which is ticked off.
LEMMA SoundRecursed ==
  ASSUME NEW s, NEW fs, Sound(s, fs), s # << >>, NEW d \in DepsAt(s, Len(s))
  PROVE  LET t == Append(WithoutDep(s, d), [file |-> d, deps |-> Deps[d]])
         IN  /\ Sound(t, fs)
             /\ Len(t) = Len(s) + 1
             /\ FileAt(t, Len(s) + 1) = d
             /\ \A i \in 1..Len(s) : FileAt(t, i) = FileAt(s, i)
             /\ FileAt(t, 1) = FileAt(s, 1)
<1> DEFINE n == Len(s)
           u == WithoutDep(s, d)
           t == Append(u, [file |-> d, deps |-> Deps[d]])
<1>1. s \in Seq(Frames)
  BY DEF Sound
<1>2. n \in Nat \ {0} /\ \A i \in 1..n : FileAt(s, i) \in Files
  BY <1>1, FramesTyped
<1>3. d \in Deps[FileAt(s, n)] /\ d \in Files
  BY <1>2, RegistryAssumption DEF Sound
<1>4. /\ u \in Seq(Frames) /\ Len(u) = n
      /\ \A i \in 1..n : /\ FileAt(u, i) = FileAt(s, i)
                         /\ i # n => DepsAt(u, i) = DepsAt(s, i)
      /\ DepsAt(u, n) = DepsAt(s, n) \ {d}
  BY <1>1, TickedOff
<1>5. /\ t \in Seq(Frames) /\ Len(t) = n + 1
      /\ \A i \in 1..n : FileAt(t, i) = FileAt(u, i) /\ DepsAt(t, i) = DepsAt(u, i)
      /\ FileAt(t, n + 1) = d /\ DepsAt(t, n + 1) = Deps[d]
  BY <1>3, <1>4, Pushed
<1> HIDE DEF t, u, n
<1>6. Above(s, n) = {} /\ Above(t, n + 1) = {} /\ Above(t, n) = {d}
  BY <1>2, <1>5 DEF Above, n
<1>7. ASSUME NEW i \in 1..n, i # n PROVE Above(t, i) = Above(s, i)
  <2>1. i + 1 \in 1..n /\ i < n /\ i < n + 1
    BY <1>2, <1>7
  <2>2. FileAt(t, i + 1) = FileAt(s, i + 1)
    BY <1>4, <1>5, <2>1
  <2> QED
    BY <1>5, <2>1, <2>2 DEF Above, n
<1>8. ASSUME NEW i \in 1..n + 1
      PROVE  /\ Deps[FileAt(t, i)] \ DepsAt(t, i) \subseteq fs \cup Above(t, i)
             /\ Above(t, i) \cup DepsAt(t, i) \subseteq Deps[FileAt(t, i)]
  <2>1. CASE i = n + 1
    BY <1>5, <1>6, <2>1
  <2>2. CASE i = n
    <3>1. Deps[FileAt(s, n)] \ DepsAt(s, n) \subseteq fs
      BY <1>2, <1>6 DEF Sound, n
    <3>2. FileAt(t, n) = FileAt(s, n) /\ DepsAt(t, n) = DepsAt(s, n) \ {d}
      BY <1>2, <1>4, <1>5
    <3>3. DepsAt(s, n) \subseteq Deps[FileAt(s, n)]
      BY <1>2 DEF Sound, n
    <3> QED
      BY <1>3, <1>6, <2>2, <3>1, <3>2, <3>3
  <2>3. CASE i \in 1..n /\ i # n
    <3>1. FileAt(t, i) = FileAt(s, i) /\ DepsAt(t, i) = DepsAt(s, i)
      BY <1>4, <1>5, <2>3
    <3> QED
      BY <1>7, <2>3, <3>1 DEF Sound, n
  <2> QED
    BY <1>2, <2>1, <2>2, <2>3
<1>9. ASSUME NEW i \in 1..n + 1, NEW j \in 1..n + 1, i < j
      PROVE  FileAt(t, j) \in TransDeps(FileAt(t, i))
  <2>1. i \in 1..n /\ FileAt(t, i) = FileAt(s, i)
    BY <1>2, <1>4, <1>5, <1>9
  <2>2. CASE j = n + 1
    <3>1. i = n \/ FileAt(s, n) \in TransDeps(FileAt(s, i))
      BY <1>2, <2>1 DEF Sound, n
    <3> QED
      BY <1>2, <1>3, <1>5, <2>1, <2>2, <3>1, TransDepsClosed
  <2>3. CASE j # n + 1
    <3>1. j \in 1..n /\ FileAt(t, j) = FileAt(s, j)
      BY <1>2, <1>4, <1>5, <2>3
    <3> QED
      BY <1>9, <2>1, <3>1 DEF Sound, n
  <2> QED
    BY <2>2, <2>3
<1>10. Sound(t, fs)
  BY <1>5, <1>8, <1>9 DEF Sound
<1>11. /\ FileAt(t, 1) = FileAt(s, 1)
       /\ \A i \in 1..n : FileAt(t, i) = FileAt(s, i)
  BY <1>2, <1>4, <1>5
<1> QED
  BY <1>5, <1>10, <1>11 DEF t, u, n

\* The recursion comes back from a file that is registered.
LEMMA SoundPopped ==
  ASSUME NEW s, NEW fs, Sound(s, fs), s # << >>, FileAt(s, Len(s)) \in fs
  PROVE  /\ Sound(Front(s), fs)
         /\ Len(Front(s)) = Len(s) - 1
         /\ \A i \in 1..Len(s) - 1 : FileAt(Front(s), i) = FileAt(s, i)
         /\ Len(s) # 1 => FileAt(Front(s), 1) = FileAt(s, 1)
<1> DEFINE n == Len(s)
           t == Front(s)
<1>1. s \in Seq(Frames)
  BY DEF Sound
<1>2. n \in Nat \ {0} /\ \A i \in 1..n : s[i] \in Frames
  BY <1>1, FramesTyped, ElementOfSeq
<1>3. t \in Seq(Frames) /\ Len(t) = n - 1 /\ \A i \in 1..n - 1 : t[i] = s[i]
  <2>1. 1 \in Int /\ n - 1 \in Int /\ \A i \in 1..n - 1 : s[i] \in Frames
    BY <1>2
  <2>2. t = SubSeq(s, 1, n - 1)
    BY DEF Front
  <2>3. /\ t \in Seq(Frames)
        /\ Len(t) = IF 1 <= n - 1 THEN n - 1 - 1 + 1 ELSE 0
        /\ \A i \in 1..n - 1 - 1 + 1 : t[i] = s[1 + i - 1]
    BY <2>1, <2>2, SubSeqProperties
  <2> HIDE DEF t, n
  <2> QED
    BY <1>2, <2>3
<1> HIDE DEF t, n
<1>4. \A i \in 1..n - 1 : FileAt(t, i) = FileAt(s, i) /\ DepsAt(t, i) = DepsAt(s, i)
  BY <1>3 DEF FileAt, DepsAt
<1>5. ASSUME NEW i \in 1..n - 1
      PROVE  Above(s, i) \subseteq Above(t, i) \cup fs /\ Above(t, i) \subseteq Above(s, i)
  <2>1. CASE i = n - 1
    BY <1>2, <1>3, <2>1 DEF Above, n
  <2>2. CASE i # n - 1
    BY <1>2, <1>3, <1>4, <2>2 DEF Above, n
  <2> QED
    BY <2>1, <2>2
<1>6. \A i \in 1..n - 1 : i \in 1..Len(s)
  BY <1>2 DEF n
<1>7. Sound(t, fs)
  BY <1>3, <1>4, <1>5, <1>6 DEF Sound
<1>8. n # 1 => FileAt(t, 1) = FileAt(s, 1)
  BY <1>2, <1>4
<1> QED
  BY <1>3, <1>4, <1>7, <1>8 DEF t, n
-----------------------------------------------------------------------------
\* The frame a step is about.
LEMMA TopFrame ==
  ASSUME NEW c \in Callers
  PROVE  /\ Top(c).file = FileAt(stack[c], Len(stack[c]))
         /\ Top(c).deps = DepsAt(stack[c], Len(stack[c]))
<1> QED
  BY DEF Top, Last, FileAt, DepsAt

\* A file all of whose imports are ticked off can be registered, if it is not.
LEMMA TopReady ==
  ASSUME TypeOK, StackInv, ControlInv,
         NEW c \in Callers, pc[c] = "deps", Top(c).deps = {}
  PROVE  Top(c).file \in Files /\ Deps[Top(c).file] \subseteq files
<1> DEFINE s == stack[c]
           n == Len(s)
<1>1. s \in Seq(Frames) /\ s # << >> /\ Sound(s, files)
  BY DEF TypeOK, StackInv, ControlInv
<1>2. n \in Nat \ {0} /\ FileAt(s, n) \in Files
  BY <1>1, FramesTyped
<1>3. Above(s, n) = {}
  BY <1>2 DEF Above
<1>4. DepsAt(s, n) = {} /\ Top(c).file = FileAt(s, n)
  BY TopFrame
<1> HIDE DEF s
<1>5. Deps[FileAt(s, n)] \ DepsAt(s, n) \subseteq files \cup Above(s, n)
  BY <1>1, <1>2 DEF Sound
<1> QED
  BY <1>2, <1>3, <1>4, <1>5

\* What Register does: it registers the file of the frame it takes away, unless
\* others have.
LEMMA RegisterEffect ==
  ASSUME TypeOK, StackInv, ControlInv, TypesInv, NEW c \in Callers, Register(c)
  PROVE  LET f == Top(c).file
         IN  /\ f \in Files /\ Deps[f] \subseteq files
             /\ files' = files \cup {f}
             /\ TypesInv'
             /\ stack' = [stack EXCEPT ![c] = Front(@)]
             /\ pc' = [pc EXCEPT ![c] = IF Len(stack[c]) = 1 THEN "visit" ELSE "deps"]
             /\ UNCHANGED <<want, batch, visit, asked, unserved>>
<1> DEFINE f == Top(c).file
<1>1. f \in Files /\ Deps[f] \subseteq files
  BY TopReady DEF Register
<1>2. \/ f \in files /\ UNCHANGED registryVars /\ Pop(c)
      \/ /\ files' = files \cup {f}
         /\ types' = types \cup {t \in Types : FileOf[t] = f}
         /\ Pop(c)
  BY <1>1 DEF Register, CanRegister
<1>3. files' = files \cup {f} /\ Pop(c)
  BY <1>2 DEF registryVars
<1>4. TypesInv'
  BY <1>2, RegistryAssumption DEF TypesInv, registryVars
<1> QED
  BY <1>1, <1>3, <1>4 DEF Register, Pop

\* Nothing is registered, and nobody resolves anything.
LEMMA InitIInv == Init => IInv
<1> SUFFICES ASSUME Init PROVE IInv
  OBVIOUS
<1> USE RegistryAssumption DEF Init
<1>1. \A c \in Callers : stack[c] = << >> /\ Len(stack[c]) = 0
  OBVIOUS
<1>2. StackInv
  BY <1>1 DEF StackInv, Sound
<1>3. TypeOK
  <2>1. unserved \in [Callers -> BOOLEAN]
    BY Zenon
  <2>2. stack \in [Callers -> Seq(Frames)]
    OBVIOUS
  <2> QED
    BY <2>1, <2>2 DEF TypeOK, PCs
<1>4. ControlInv /\ WantInv /\ TypesInv /\ Closed(files) /\ FailsOnlyIfUnserved
  BY DEF ControlInv, WantInv, TypesInv, Closed, FailsOnlyIfUnserved
<1>5. DescriptorsAtHand
  BY <1>1 DEF DescriptorsAtHand
<1> QED
  BY <1>2, <1>3, <1>4, <1>5 DEF IInv

\* One caller's recursion changes, and files may be registered.
LEMMA OneStackChanges ==
  ASSUME TypeOK, StackInv, files \subseteq files',
         NEW c \in Callers, NEW t, Sound(t, files'), stack' = [stack EXCEPT ![c] = t]
  PROVE  StackInv' /\ stack' \in [Callers -> Seq(Frames)]
<1>1. \A d \in Callers : Sound(stack[d], files')
  BY SoundGrows DEF StackInv
<1>2. t \in Seq(Frames)
  BY DEF Sound
<1>3. stack' \in [Callers -> Seq(Frames)]
  BY <1>2 DEF TypeOK
<1>4. \A d \in Callers : stack'[d] = IF d = c THEN t ELSE stack[d]
  BY DEF TypeOK
<1>5. StackInv'
  BY <1>1, <1>4 DEF StackInv
<1> QED
  BY <1>3, <1>5

\* No recursion changes, nor are files registered.
LEMMA NoStackChanges ==
  ASSUME TypeOK, StackInv, UNCHANGED <<files, stack>>
  PROVE  StackInv' /\ stack' \in [Callers -> Seq(Frames)]
<1>1. StackInv'
  BY DEF StackInv
<1>2. stack' \in [Callers -> Seq(Frames)]
  BY DEF TypeOK
<1> QED
  BY <1>1, <1>2

\* Each step keeps every recursion sound.
LEMMA StepStackInv ==
  IInv /\ [Next]_vars => StackInv' /\ stack' \in [Callers -> Seq(Frames)]
<1> SUFFICES ASSUME IInv, [Next]_vars
             PROVE  StackInv' /\ stack' \in [Callers -> Seq(Frames)]
  OBVIOUS
<1> USE DEF IInv
<1>1. ASSUME NEW c \in Callers, NEW t \in Types, FindMessage(c, t)
      PROVE  StackInv' /\ stack' \in [Callers -> Seq(Frames)]
  BY <1>1, NoStackChanges DEF FindMessage, registryVars
<1>2. ASSUME NEW c \in Callers, Lookup(c)
      PROVE  StackInv' /\ stack' \in [Callers -> Seq(Frames)]
  BY <1>2, NoStackChanges DEF Lookup, registryVars
<1>3. ASSUME NEW c \in Callers, SymbolServed(c)
      PROVE  StackInv' /\ stack' \in [Callers -> Seq(Frames)]
  BY <1>3, NoStackChanges DEF SymbolServed, registryVars
<1>4. ASSUME NEW c \in Callers, CallFails(c)
      PROVE  StackInv' /\ stack' \in [Callers -> Seq(Frames)]
  BY <1>4, NoStackChanges DEF CallFails, registryVars
<1>5. ASSUME NEW c \in Callers, VisitFile(c)
      PROVE  StackInv' /\ stack' \in [Callers -> Seq(Frames)]
  <2>1. PICK f \in visit[c] : Enter(c, f) /\ pc[c] = "visit" /\ UNCHANGED files
    BY <1>5 DEF VisitFile, Goto, registryVars
  <2>2. stack[c] = << >> /\ f \in Files
    BY <2>1 DEF ControlInv, TypeOK
  <2>3. CASE f \in files
    BY <2>1, <2>3, NoStackChanges DEF Enter, TypeOK
  <2>4. CASE f \notin files
    <3> DEFINE t == Append(stack[c], [file |-> f, deps |-> Deps[f]])
    <3>1. stack' = [stack EXCEPT ![c] = t]
      BY <2>1, <2>4 DEF Enter
    <3>2. Sound(t, files')
      BY <2>1, <2>2, SoundEntered
    <3> HIDE DEF t
    <3> QED
      BY <2>1, <3>1, <3>2, OneStackChanges
  <2> QED
    BY <2>3, <2>4
<1>6. ASSUME NEW c \in Callers, VisitedAll(c)
      PROVE  StackInv' /\ stack' \in [Callers -> Seq(Frames)]
  BY <1>6, NoStackChanges DEF VisitedAll, registryVars
<1>7. ASSUME NEW c \in Callers, SkipDep(c)
      PROVE  StackInv' /\ stack' \in [Callers -> Seq(Frames)]
  <2>1. PICK d \in Top(c).deps \cap files :
          stack' = [stack EXCEPT ![c] = WithoutDep(@, d)]
    BY <1>7 DEF SkipDep
  <2>2. stack[c] # << >> /\ Sound(stack[c], files) /\ files' = files
    BY <1>7 DEF SkipDep, ControlInv, StackInv, registryVars
  <2>3. Sound(WithoutDep(stack[c], d), files')
    BY <2>2, TopFrame, SoundTickedOff
  <2> QED
    BY <2>1, <2>2, <2>3, OneStackChanges
<1>8. ASSUME NEW c \in Callers, BatchedDep(c)
      PROVE  StackInv' /\ stack' \in [Callers -> Seq(Frames)]
  <2>1. PICK d \in Top(c).deps : RecurseInto(c, d)
    BY <1>8 DEF BatchedDep
  <2>2. stack[c] # << >> /\ Sound(stack[c], files) /\ files' = files
    BY <1>8 DEF BatchedDep, ControlInv, StackInv, registryVars
  <2> DEFINE t == Append(WithoutDep(stack[c], d), [file |-> d, deps |-> Deps[d]])
  <2>3. Sound(t, files')
    BY <2>2, TopFrame, SoundRecursed
  <2>4. stack' = [stack EXCEPT ![c] = t]
    BY <2>1 DEF RecurseInto
  <2> HIDE DEF t
  <2> QED
    BY <2>2, <2>3, <2>4, OneStackChanges
<1>9. ASSUME NEW c \in Callers, MissingDep(c)
      PROVE  StackInv' /\ stack' \in [Callers -> Seq(Frames)]
  BY <1>9, NoStackChanges DEF MissingDep, registryVars
<1>10. ASSUME NEW c \in Callers, DepServed(c)
      PROVE  StackInv' /\ stack' \in [Callers -> Seq(Frames)]
  BY <1>10, NoStackChanges DEF DepServed, registryVars
<1>11. ASSUME NEW c \in Callers, Register(c)
      PROVE  StackInv' /\ stack' \in [Callers -> Seq(Frames)]
  <2>1. /\ files' = files \cup {Top(c).file}
        /\ stack' = [stack EXCEPT ![c] = Front(@)]
    BY <1>11, RegisterEffect
  <2>2. stack[c] # << >> /\ Sound(stack[c], files')
    BY <1>11, <2>1, SoundGrows DEF Register, ControlInv, StackInv
  <2>3. Sound(Front(stack[c]), files')
    BY <2>1, <2>2, TopFrame, SoundPopped
  <2> QED
    BY <2>1, <2>3, OneStackChanges
<1>12. ASSUME NEW c \in Callers, Recheck(c)
      PROVE  StackInv' /\ stack' \in [Callers -> Seq(Frames)]
  BY <1>12, NoStackChanges DEF Recheck, registryVars
<1>13. ASSUME NEW c \in Callers, Render(c)
      PROVE  StackInv' /\ stack' \in [Callers -> Seq(Frames)]
  <2>1. Sound(<< >>, files')
    BY DEF Sound
  <2> QED
    BY <1>13, <2>1, OneStackChanges DEF Render, registryVars
<1>14. CASE UNCHANGED vars
  BY <1>14, NoStackChanges DEF vars, registryVars
<1> QED
  BY <1>1, <1>2, <1>3, <1>4, <1>5, <1>6, <1>7, <1>8, <1>9, <1>10, <1>11, <1>12, <1>13, <1>14 DEF Next, ResolveStep

\* Each step preserves the types.
LEMMA StepTypeOK == IInv /\ [Next]_vars => TypeOK'
<1> SUFFICES ASSUME IInv, [Next]_vars PROVE TypeOK'
  OBVIOUS
<1>0. stack' \in [Callers -> Seq(Frames)]
  BY StepStackInv
<1> USE <1>0, RegistryAssumption DEF IInv, TypeOK, PCs
<1>1. ASSUME NEW c \in Callers, NEW t \in Types, FindMessage(c, t) PROVE TypeOK'
  BY <1>1 DEF FindMessage, registryVars, Goto
<1>2. ASSUME NEW c \in Callers, Lookup(c) PROVE TypeOK'
  BY <1>2 DEF Lookup, registryVars, Goto
<1>3. ASSUME NEW c \in Callers, SymbolServed(c) PROVE TypeOK'
  BY <1>3, ReplyHasFile DEF SymbolServed, registryVars, Goto
<1>4. ASSUME NEW c \in Callers, CallFails(c) PROVE TypeOK'
  BY <1>4 DEF CallFails, registryVars, Goto
<1>5. ASSUME NEW c \in Callers, VisitFile(c) PROVE TypeOK'
  BY <1>5 DEF VisitFile, Enter, registryVars, Goto
<1>6. ASSUME NEW c \in Callers, VisitedAll(c) PROVE TypeOK'
  BY <1>6 DEF VisitedAll, registryVars, Goto
<1>7. ASSUME NEW c \in Callers, SkipDep(c) PROVE TypeOK'
  BY <1>7 DEF SkipDep, registryVars, Goto
<1>8. ASSUME NEW c \in Callers, BatchedDep(c) PROVE TypeOK'
  BY <1>8 DEF BatchedDep, registryVars, Goto
<1>9. ASSUME NEW c \in Callers, MissingDep(c) PROVE TypeOK'
  <2>1. stack[c] \in Seq(Frames) /\ stack[c] # << >>
    BY <1>9 DEF MissingDep, Goto, ControlInv
  <2>2. Len(stack[c]) \in 1..Len(stack[c])
    BY <2>1, FramesTyped
  <2>3. Top(c).deps \subseteq Files
    <3>1. DepsAt(stack[c], Len(stack[c])) \subseteq Files
      BY <2>1, <2>2, FramesTyped
    <3> QED
      BY <3>1, TopFrame
  <2> QED
    BY <1>9, <2>3 DEF MissingDep, registryVars, Goto
<1>10. ASSUME NEW c \in Callers, DepServed(c) PROVE TypeOK'
  BY <1>10, ReplyHasFile DEF DepServed, registryVars, Goto
<1>11. ASSUME NEW c \in Callers, Register(c) PROVE TypeOK'
  <2>1. types' \subseteq Types
    BY <1>11, RegisterEffect DEF TypesInv
  <2>2. Top(c).file \in Files
    BY <1>11, RegisterEffect
  <2> QED
    BY <1>11, <2>1, <2>2, RegisterEffect
<1>12. ASSUME NEW c \in Callers, Recheck(c) PROVE TypeOK'
  BY <1>12 DEF Recheck, registryVars, Goto
<1>13. ASSUME NEW c \in Callers, Render(c) PROVE TypeOK'
  BY <1>13 DEF Render, registryVars, Goto
<1>14. CASE UNCHANGED vars
  BY <1>14 DEF vars, registryVars
<1> QED
  BY <1>1, <1>2, <1>3, <1>4, <1>5, <1>6, <1>7, <1>8, <1>9, <1>10, <1>11, <1>12, <1>13, <1>14 DEF Next, ResolveStep

\* Each step keeps a caller's recursion to the time it is registering files.
LEMMA StepControlInv == IInv /\ [Next]_vars => ControlInv'
<1> SUFFICES ASSUME IInv, [Next]_vars PROVE ControlInv'
  OBVIOUS
<1> USE DEF IInv, TypeOK, ControlInv
<1>1. ASSUME NEW c \in Callers, NEW t \in Types, FindMessage(c, t) PROVE ControlInv'
  BY <1>1 DEF FindMessage, registryVars, Goto
<1>2. ASSUME NEW c \in Callers, Lookup(c) PROVE ControlInv'
  BY <1>2 DEF Lookup, registryVars, Goto
<1>3. ASSUME NEW c \in Callers, SymbolServed(c) PROVE ControlInv'
  BY <1>3 DEF SymbolServed, registryVars, Goto
<1>4. ASSUME NEW c \in Callers, CallFails(c) PROVE ControlInv'
  BY <1>4 DEF CallFails, registryVars, Goto
<1>5. ASSUME NEW c \in Callers, VisitFile(c) PROVE ControlInv'
  <2>1. PICK f \in visit[c] :
          Enter(c, f) /\ Goto(c, "visit", IF f \in files THEN "visit" ELSE "deps")
    BY <1>5 DEF VisitFile
  <2>2. stack[c] = << >> /\ f \in Files
    BY <2>1 DEF Goto
  <2>3. Append(<< >>, [file |-> f, deps |-> Deps[f]]) # << >>
    BY <2>2, SoundEntered
  <2> QED
    BY <2>1, <2>2, <2>3 DEF Enter, Goto
<1>6. ASSUME NEW c \in Callers, VisitedAll(c) PROVE ControlInv'
  BY <1>6 DEF VisitedAll, registryVars, Goto
<1>7. ASSUME NEW c \in Callers, SkipDep(c) PROVE ControlInv'
  <2>1. PICK d : stack' = [stack EXCEPT ![c] = WithoutDep(@, d)]
    BY <1>7 DEF SkipDep
  <2>2. WithoutDep(stack[c], d) # << >>
    BY <1>7, TickedOff, EmptySeq, FramesTyped DEF SkipDep
  <2> QED
    BY <1>7, <2>1, <2>2 DEF SkipDep
<1>8. ASSUME NEW c \in Callers, BatchedDep(c) PROVE ControlInv'
  <2>1. PICK d \in Top(c).deps : RecurseInto(c, d)
    BY <1>8 DEF BatchedDep
  <2>2. stack[c] # << >> /\ Sound(stack[c], files)
    BY <1>8 DEF BatchedDep, StackInv
  <2> DEFINE t == Append(WithoutDep(stack[c], d), [file |-> d, deps |-> Deps[d]])
  <2>3. Len(t) = Len(stack[c]) + 1 /\ Len(stack[c]) \in Nat
    BY <2>1, <2>2, TopFrame, SoundRecursed, FramesTyped DEF Sound
  <2>4. stack' = [stack EXCEPT ![c] = t]
    BY <2>1 DEF RecurseInto
  <2> HIDE DEF t
  <2>5. t # << >>
    BY <2>3
  <2> QED
    BY <1>8, <2>4, <2>5 DEF BatchedDep
<1>9. ASSUME NEW c \in Callers, MissingDep(c) PROVE ControlInv'
  BY <1>9 DEF MissingDep, registryVars, Goto
<1>10. ASSUME NEW c \in Callers, DepServed(c) PROVE ControlInv'
  BY <1>10 DEF DepServed, registryVars, Goto
<1>11. ASSUME NEW c \in Callers, Register(c) PROVE ControlInv'
  <2>1. /\ files' = files \cup {Top(c).file}
        /\ stack' = [stack EXCEPT ![c] = Front(@)]
        /\ pc' = [pc EXCEPT ![c] = IF Len(stack[c]) = 1 THEN "visit" ELSE "deps"]
    BY <1>11, RegisterEffect
  <2>2. stack[c] # << >> /\ stack[c] \in Seq(Frames) /\ Sound(stack[c], files')
    BY <1>11, <2>1, SoundGrows DEF Register, StackInv
  <2>3. Len(Front(stack[c])) = Len(stack[c]) - 1 /\ Sound(Front(stack[c]), files')
    BY <2>1, <2>2, TopFrame, SoundPopped
  <2>4. Len(stack[c]) \in Nat \ {0}
    BY <2>2, FramesTyped
  <2>5. Front(stack[c]) = << >> <=> Len(stack[c]) = 1
    <3> DEFINE t == Front(stack[c])
    <3>1. t \in Seq(Frames) /\ Len(t) = Len(stack[c]) - 1
      BY <2>3 DEF Sound
    <3> HIDE DEF t
    <3>2. t # << >> => Len(t) \in Nat \ {0}
      BY <3>1, EmptySeq
    <3>3. t = << >> => Len(t) = 0
      OBVIOUS
    <3>4. t = << >> <=> Len(stack[c]) = 1
      BY <2>4, <3>1, <3>2, <3>3
    <3> QED
      BY <3>4 DEF t
  <2> QED
    BY <2>1, <2>5
<1>12. ASSUME NEW c \in Callers, Recheck(c) PROVE ControlInv'
  BY <1>12 DEF Recheck, registryVars, Goto
<1>13. ASSUME NEW c \in Callers, Render(c) PROVE ControlInv'
  BY <1>13 DEF Render, registryVars, Goto
<1>14. CASE UNCHANGED vars
  BY <1>14 DEF vars, registryVars
<1> QED
  BY <1>1, <1>2, <1>3, <1>4, <1>5, <1>6, <1>7, <1>8, <1>9, <1>10, <1>11, <1>12, <1>13, <1>14 DEF Next, ResolveStep

\* Each step keeps the wanted file registered, or to be registered.
LEMMA StepWantInv == IInv /\ [Next]_vars => WantInv'
<1> SUFFICES ASSUME IInv, [Next]_vars PROVE WantInv'
  OBVIOUS
<1> USE RegistryAssumption DEF IInv, TypeOK, WantInv
<1>1. ASSUME NEW c \in Callers, NEW t \in Types, FindMessage(c, t) PROVE WantInv'
  BY <1>1 DEF FindMessage, registryVars, Goto
<1>2. ASSUME NEW c \in Callers, Lookup(c) PROVE WantInv'
  BY <1>2 DEF Lookup, registryVars, Goto, TypesInv
<1>3. ASSUME NEW c \in Callers, SymbolServed(c) PROVE WantInv'
  BY <1>3, ReplyHasFile DEF SymbolServed, registryVars, Goto
<1>4. ASSUME NEW c \in Callers, CallFails(c) PROVE WantInv'
  BY <1>4 DEF CallFails, registryVars, Goto
<1>5. ASSUME NEW c \in Callers, VisitFile(c) PROVE WantInv'
  <2>1. PICK f \in visit[c] :
          /\ Enter(c, f) /\ Goto(c, "visit", IF f \in files THEN "visit" ELSE "deps")
          /\ visit' = [visit EXCEPT ![c] = @ \ {f}]
          /\ UNCHANGED <<files, want>>
    BY <1>5 DEF VisitFile, registryVars
  <2>2. stack[c] = << >> /\ f \in Files
    BY <2>1 DEF Goto, ControlInv
  <2>3. f \notin files => FileAt(stack'[c], 1) = f
    BY <2>1, <2>2, SoundEntered DEF Enter
  <2>4. \A d \in Callers \ {c} : pc'[d] = pc[d] /\ stack'[d] = stack[d] /\ visit'[d] = visit[d]
    BY <2>1 DEF Goto, Enter
  <2>5. /\ pc'[c] = IF f \in files THEN "visit" ELSE "deps"
        /\ visit'[c] = visit[c] \ {f}
        /\ FileOf[want[c]] \in visit[c] \cup files
    BY <2>1 DEF Goto
  <2> QED
    BY <2>1, <2>3, <2>4, <2>5
<1>6. ASSUME NEW c \in Callers, VisitedAll(c) PROVE WantInv'
  BY <1>6 DEF VisitedAll, registryVars, Goto
<1>7. ASSUME NEW c \in Callers, SkipDep(c) PROVE WantInv'
  <2>1. PICK d \in Top(c).deps \cap files :
          stack' = [stack EXCEPT ![c] = WithoutDep(@, d)]
    BY <1>7 DEF SkipDep
  <2>2. stack[c] # << >> /\ Sound(stack[c], files) /\ Len(stack[c]) \in Nat \ {0}
    BY <1>7, FramesTyped DEF SkipDep, ControlInv, StackInv
  <2>3. FileAt(WithoutDep(stack[c], d), 1) = FileAt(stack[c], 1)
    BY <2>1, <2>2, TopFrame, SoundTickedOff
  <2> QED
    BY <1>7, <2>1, <2>3 DEF SkipDep, registryVars
<1>8. ASSUME NEW c \in Callers, BatchedDep(c) PROVE WantInv'
  <2>1. PICK d \in Top(c).deps : RecurseInto(c, d)
    BY <1>8 DEF BatchedDep
  <2>2. stack[c] # << >> /\ Sound(stack[c], files)
    BY <1>8 DEF BatchedDep, ControlInv, StackInv
  <2>3. FileAt(stack'[c], 1) = FileAt(stack[c], 1)
    BY <2>1, <2>2, TopFrame, SoundRecursed DEF RecurseInto
  <2> QED
    BY <1>8, <2>1, <2>3 DEF BatchedDep, RecurseInto, registryVars
<1>9. ASSUME NEW c \in Callers, MissingDep(c) PROVE WantInv'
  BY <1>9 DEF MissingDep, registryVars, Goto
<1>10. ASSUME NEW c \in Callers, DepServed(c) PROVE WantInv'
  BY <1>10 DEF DepServed, registryVars, Goto
<1>11. ASSUME NEW c \in Callers, Register(c) PROVE WantInv'
  <2>1. /\ files' = files \cup {Top(c).file}
        /\ stack' = [stack EXCEPT ![c] = Front(@)]
        /\ pc' = [pc EXCEPT ![c] = IF Len(stack[c]) = 1 THEN "visit" ELSE "deps"]
        /\ UNCHANGED <<want, visit>>
    BY <1>11, RegisterEffect
  <2>2. stack[c] # << >> /\ Sound(stack[c], files') /\ pc[c] = "deps"
    BY <1>11, <2>1, SoundGrows DEF Register, ControlInv, StackInv
  <2>3. Len(stack[c]) # 1 => FileAt(Front(stack[c]), 1) = FileAt(stack[c], 1)
    BY <2>1, <2>2, TopFrame, SoundPopped
  <2>4. Len(stack[c]) = 1 => FileAt(stack[c], 1) \in files'
    BY <2>1, TopFrame
  <2>5. FileOf[want[c]] \in visit[c] \cup files \cup {FileAt(stack[c], 1)}
    BY <2>2
  <2>6. \A d \in Callers \ {c} : pc'[d] = pc[d] /\ stack'[d] = stack[d]
    BY <2>1
  <2> QED
    BY <2>1, <2>3, <2>4, <2>5, <2>6
<1>12. ASSUME NEW c \in Callers, Recheck(c) PROVE WantInv'
  BY <1>12 DEF Recheck, registryVars, Goto
<1>13. ASSUME NEW c \in Callers, Render(c) PROVE WantInv'
  BY <1>13 DEF Render, registryVars, Goto
<1>14. CASE UNCHANGED vars
  BY <1>14 DEF vars, registryVars
<1> QED
  BY <1>1, <1>2, <1>3, <1>4, <1>5, <1>6, <1>7, <1>8, <1>9, <1>10, <1>11, <1>12, <1>13, <1>14 DEF Next, ResolveStep

\* Each step registers files after their imports, and with their types.
LEMMA StepRegistry == IInv /\ [Next]_vars => Closed(files') /\ TypesInv'
<1> SUFFICES ASSUME IInv, [Next]_vars PROVE Closed(files') /\ TypesInv'
  OBVIOUS
<1>1. ASSUME NEW c \in Callers, Register(c) PROVE Closed(files') /\ TypesInv'
  BY <1>1, RegisterEffect DEF IInv, Closed
<1>2. CASE UNCHANGED registryVars
  BY <1>2 DEF IInv, Closed, TypesInv, registryVars
<1>3. ASSUME NEW c \in Callers, ResolveStep(c), ~Register(c) PROVE UNCHANGED registryVars
  BY <1>3 DEF ResolveStep, Lookup, SymbolServed, CallFails, VisitFile, VisitedAll,
    SkipDep, BatchedDep, MissingDep, DepServed, Recheck
<1>4. UNCHANGED registryVars \/ \E c \in Callers : Register(c)
  BY <1>3 DEF Next, Render, FindMessage, vars, registryVars
<1> QED
  BY <1>1, <1>2, <1>4

\* Each step that fails a resolution follows a failed call.
LEMMA StepFailsOnlyIfUnserved == IInv /\ [Next]_vars => FailsOnlyIfUnserved'
<1> SUFFICES ASSUME IInv, [Next]_vars PROVE FailsOnlyIfUnserved'
  OBVIOUS
<1> USE DEF IInv, TypeOK, FailsOnlyIfUnserved
<1>1. ASSUME NEW c \in Callers, NEW t \in Types, FindMessage(c, t)
      PROVE  FailsOnlyIfUnserved'
  BY <1>1 DEF FindMessage, Goto
<1>2. ASSUME NEW c \in Callers, Lookup(c) PROVE FailsOnlyIfUnserved'
  BY <1>2 DEF Lookup, Goto
<1>3. ASSUME NEW c \in Callers, SymbolServed(c) PROVE FailsOnlyIfUnserved'
  BY <1>3 DEF SymbolServed, Goto
<1>4. ASSUME NEW c \in Callers, CallFails(c) PROVE FailsOnlyIfUnserved'
  BY <1>4 DEF CallFails
<1>5. ASSUME NEW c \in Callers, VisitFile(c) PROVE FailsOnlyIfUnserved'
  BY <1>5 DEF VisitFile, Goto
<1>6. ASSUME NEW c \in Callers, VisitedAll(c) PROVE FailsOnlyIfUnserved'
  BY <1>6 DEF VisitedAll, Goto
<1>7. ASSUME NEW c \in Callers, SkipDep(c) PROVE FailsOnlyIfUnserved'
  BY <1>7 DEF SkipDep, Goto
<1>8. ASSUME NEW c \in Callers, BatchedDep(c) PROVE FailsOnlyIfUnserved'
  BY <1>8 DEF BatchedDep, Goto
<1>9. ASSUME NEW c \in Callers, MissingDep(c) PROVE FailsOnlyIfUnserved'
  BY <1>9 DEF MissingDep, Goto
<1>10. ASSUME NEW c \in Callers, DepServed(c) PROVE FailsOnlyIfUnserved'
  BY <1>10 DEF DepServed, Goto
<1>11. ASSUME NEW c \in Callers, Register(c) PROVE FailsOnlyIfUnserved'
  <2>1. /\ pc' = [pc EXCEPT ![c] = IF Len(stack[c]) = 1 THEN "visit" ELSE "deps"]
        /\ UNCHANGED unserved
    BY <1>11, RegisterEffect
  <2> QED
    BY <2>1
<1>12. ASSUME NEW c \in Callers, Recheck(c) PROVE FailsOnlyIfUnserved'
  BY <1>12 DEF Recheck, Goto, WantInv, TypesInv
<1>13. ASSUME NEW c \in Callers, Render(c) PROVE FailsOnlyIfUnserved'
  BY <1>13 DEF Render, Goto
<1>14. CASE UNCHANGED vars
  BY <1>14 DEF vars, registryVars
<1> QED
  BY <1>1, <1>2, <1>3, <1>4, <1>5, <1>6, <1>7, <1>8, <1>9, <1>10, <1>11, <1>12, <1>13, <1>14 DEF Next, ResolveStep

\* The batch only grows, and the recursion at most loses its last file.
LEMMA AtHandKept ==
  ASSUME TypeOK, DescriptorsAtHand, NEW c \in Callers, NEW t \in Seq(Frames),
         stack' = [stack EXCEPT ![c] = t],
         \A d \in Callers : visit'[d] \subseteq batch'[d] /\ batch[d] \subseteq batch'[d],
         \A i \in 1..Len(t) : FileAt(t, i) \in batch[c]
  PROVE  DescriptorsAtHand'
<1>1. \A d \in Callers : stack'[d] = IF d = c THEN t ELSE stack[d]
  BY DEF TypeOK
<1>2. \A s \in Seq(Frames) : DOMAIN s = 1..Len(s)
  BY LenProperties
<1> QED
  BY <1>1, <1>2 DEF DescriptorsAtHand, FileAt

\* Neither the recursion changes, nor does the batch lose a file.
LEMMA AtHandStays ==
  ASSUME DescriptorsAtHand, UNCHANGED stack,
         \A d \in Callers : visit'[d] \subseteq batch'[d] /\ batch[d] \subseteq batch'[d]
  PROVE  DescriptorsAtHand'
<1> QED
  BY DEF DescriptorsAtHand

\* Each step of the recursion goes to a file of the batch.
LEMMA StepAtHand == IInv /\ [Next]_vars => DescriptorsAtHand'
<1> SUFFICES ASSUME IInv, [Next]_vars PROVE DescriptorsAtHand'
  OBVIOUS
<1> USE DEF IInv
<1>0. \A d \in Callers : /\ visit[d] \subseteq batch[d]
                        /\ \A i \in 1..Len(stack[d]) : FileAt(stack[d], i) \in batch[d]
  BY LenProperties DEF DescriptorsAtHand, FileAt, TypeOK
<1>1. ASSUME NEW c \in Callers, NEW t \in Types, FindMessage(c, t)
      PROVE  DescriptorsAtHand'
  BY <1>0, <1>1, AtHandStays DEF FindMessage, registryVars
<1>2. ASSUME NEW c \in Callers, Lookup(c) PROVE DescriptorsAtHand'
  BY <1>0, <1>2, AtHandStays DEF Lookup, registryVars
<1>3. ASSUME NEW c \in Callers, SymbolServed(c) PROVE DescriptorsAtHand'
  <2>1. stack[c] = << >> /\ stack' = stack
    BY <1>3 DEF SymbolServed, Goto, ControlInv
  <2>2. PICK reply : /\ batch' = [batch EXCEPT ![c] = reply]
                     /\ visit' = [visit EXCEPT ![c] = reply]
    BY <1>3 DEF SymbolServed
  <2>3. DOMAIN << >> = {}
    OBVIOUS
  <2> QED
    BY <2>1, <2>2, <2>3 DEF DescriptorsAtHand, TypeOK
<1>4. ASSUME NEW c \in Callers, CallFails(c) PROVE DescriptorsAtHand'
  BY <1>0, <1>4, AtHandStays DEF CallFails, registryVars
<1>5. ASSUME NEW c \in Callers, VisitFile(c) PROVE DescriptorsAtHand'
  <2>1. PICK f \in visit[c] :
          /\ Enter(c, f) /\ pc[c] = "visit"
          /\ visit' = [visit EXCEPT ![c] = @ \ {f}]
          /\ UNCHANGED batch
    BY <1>5 DEF VisitFile, Goto
  <2>2. stack[c] = << >> /\ f \in Files /\ f \in batch[c]
    BY <1>0, <2>1 DEF ControlInv, TypeOK
  <2>3. \A d \in Callers : visit'[d] \subseteq batch'[d] /\ batch[d] \subseteq batch'[d]
    BY <1>0, <2>1 DEF TypeOK
  <2>4. CASE f \in files
    <3>1. stack' = stack
      BY <2>1, <2>4 DEF Enter, TypeOK
    <3> QED
      BY <2>3, <3>1, AtHandStays
  <2>5. CASE f \notin files
    <3> DEFINE t == Append(<< >>, [file |-> f, deps |-> Deps[f]])
    <3>1. stack' = [stack EXCEPT ![c] = t]
      BY <2>1, <2>2, <2>5 DEF Enter
    <3>2. t \in Seq(Frames) /\ Len(t) = 1 /\ FileAt(t, 1) = f
      BY <2>2, SoundEntered DEF Sound
    <3> HIDE DEF t
    <3>3. \A i \in 1..Len(t) : FileAt(t, i) \in batch[c]
      BY <2>2, <3>2
    <3> QED
      BY <2>3, <3>1, <3>2, <3>3, AtHandKept
  <2> QED
    BY <2>4, <2>5
<1>6. ASSUME NEW c \in Callers, VisitedAll(c) PROVE DescriptorsAtHand'
  BY <1>0, <1>6, AtHandStays DEF VisitedAll, registryVars
<1>7. ASSUME NEW c \in Callers, SkipDep(c) PROVE DescriptorsAtHand'
  <2>1. PICK d \in Top(c).deps \cap files :
          stack' = [stack EXCEPT ![c] = WithoutDep(@, d)]
    BY <1>7 DEF SkipDep
  <2>2. stack[c] # << >> /\ Sound(stack[c], files)
    BY <1>7 DEF SkipDep, ControlInv, StackInv
  <2> DEFINE t == WithoutDep(stack[c], d)
  <2>3. /\ Sound(t, files) /\ Len(t) = Len(stack[c])
        /\ \A i \in 1..Len(stack[c]) : FileAt(t, i) = FileAt(stack[c], i)
    BY <2>2, TopFrame, SoundTickedOff
  <2>4. stack' = [stack EXCEPT ![c] = t]
    BY <2>1
  <2> HIDE DEF t
  <2>5. t \in Seq(Frames)
    BY <2>3 DEF Sound
  <2>6. ASSUME NEW i \in 1..Len(t)
        PROVE  FileAt(t, i) \in batch[c]
    <3>1. FileAt(stack[c], i) \in batch[c]
      BY <1>0, <2>3
    <3> QED
      BY <2>3, <3>1
  <2> QED
    BY <1>0, <1>7, <2>4, <2>5, <2>6, AtHandKept DEF SkipDep
<1>8. ASSUME NEW c \in Callers, BatchedDep(c) PROVE DescriptorsAtHand'
  <2>1. PICK d \in Top(c).deps \cap batch[c] : RecurseInto(c, d)
    BY <1>8 DEF BatchedDep
  <2>2. stack[c] # << >> /\ Sound(stack[c], files) /\ Len(stack[c]) \in Nat
    BY <1>8, FramesTyped DEF BatchedDep, ControlInv, StackInv, Sound
  <2> DEFINE t == Append(WithoutDep(stack[c], d), [file |-> d, deps |-> Deps[d]])
  <2>3. /\ Sound(t, files) /\ Len(t) = Len(stack[c]) + 1
        /\ FileAt(t, Len(stack[c]) + 1) = d
        /\ \A i \in 1..Len(stack[c]) : FileAt(t, i) = FileAt(stack[c], i)
    BY <2>2, TopFrame, SoundRecursed
  <2>4. stack' = [stack EXCEPT ![c] = t]
    BY <2>1 DEF RecurseInto
  <2> HIDE DEF t
  <2>5. t \in Seq(Frames)
    BY <2>3 DEF Sound
  <2>6. ASSUME NEW i \in 1..Len(t)
        PROVE  FileAt(t, i) \in batch[c]
    <3>1. i \in 1..Len(stack[c]) \/ i = Len(stack[c]) + 1
      BY <2>2, <2>3
    <3> QED
      BY <1>0, <2>1, <2>3, <3>1
  <2>7. \A e \in Callers : visit'[e] \subseteq batch'[e] /\ batch[e] \subseteq batch'[e]
    BY <1>0, <1>8 DEF BatchedDep
  <2> QED
    BY <2>4, <2>5, <2>6, <2>7, AtHandKept
<1>9. ASSUME NEW c \in Callers, MissingDep(c) PROVE DescriptorsAtHand'
  BY <1>0, <1>9, AtHandStays DEF MissingDep, registryVars
<1>10. ASSUME NEW c \in Callers, DepServed(c) PROVE DescriptorsAtHand'
  <2>1. PICK reply : /\ batch' = [batch EXCEPT ![c] = @ \cup reply]
                     /\ \E seen \in SUBSET (reply \ batch[c]) :
                          visit' = [visit EXCEPT ![c] = @ \cup seen]
                     /\ UNCHANGED stack
    BY <1>10 DEF DepServed
  <2>2. \A d \in Callers : visit'[d] \subseteq batch'[d] /\ batch[d] \subseteq batch'[d]
    BY <1>0, <2>1 DEF TypeOK
  <2> QED
    BY <2>1, <2>2, AtHandStays
<1>11. ASSUME NEW c \in Callers, Register(c) PROVE DescriptorsAtHand'
  <2>1. /\ files' = files \cup {Top(c).file}
        /\ stack' = [stack EXCEPT ![c] = Front(@)]
        /\ UNCHANGED <<batch, visit>>
    BY <1>11, RegisterEffect
  <2>2. stack[c] # << >> /\ Sound(stack[c], files') /\ Len(stack[c]) \in Nat
    BY <1>11, <2>1, SoundGrows, FramesTyped DEF Register, ControlInv, StackInv, Sound
  <2> DEFINE t == Front(stack[c])
  <2>3. /\ t \in Seq(Frames) /\ Len(t) = Len(stack[c]) - 1
        /\ \A i \in 1..Len(stack[c]) - 1 : FileAt(t, i) = FileAt(stack[c], i)
    BY <2>1, <2>2, TopFrame, SoundPopped DEF Sound
  <2>4. stack' = [stack EXCEPT ![c] = t]
    BY <2>1
  <2> HIDE DEF t
  <2>5. ASSUME NEW i \in 1..Len(t)
        PROVE  FileAt(t, i) \in batch[c]
    <3>1. i \in 1..Len(stack[c]) - 1 /\ i \in 1..Len(stack[c])
      BY <2>2, <2>3
    <3>2. FileAt(stack[c], i) \in batch[c]
      BY <1>0, <3>1
    <3> QED
      BY <2>3, <3>1, <3>2
  <2> QED
    BY <1>0, <2>1, <2>3, <2>4, <2>5, AtHandKept
<1>12. ASSUME NEW c \in Callers, Recheck(c) PROVE DescriptorsAtHand'
  BY <1>0, <1>12, AtHandStays DEF Recheck, registryVars
<1>13. ASSUME NEW c \in Callers, Render(c) PROVE DescriptorsAtHand'
  <2>1. /\ batch' = [batch EXCEPT ![c] = {}]
        /\ visit' = [visit EXCEPT ![c] = {}]
        /\ stack' = [stack EXCEPT ![c] = << >>]
    BY <1>13 DEF Render
  <2>2. DOMAIN << >> = {}
    OBVIOUS
  <2> QED
    BY <2>1, <2>2 DEF DescriptorsAtHand, TypeOK
<1>14. CASE UNCHANGED vars
  BY <1>0, <1>14, AtHandStays DEF vars
<1> QED
  BY <1>1, <1>2, <1>3, <1>4, <1>5, <1>6, <1>7, <1>8, <1>9, <1>10, <1>11, <1>12, <1>13, <1>14 DEF Next, ResolveStep

LEMMA Invariance == Spec => []IInv
<1>1. IInv /\ [Next]_vars => IInv'
  BY StepTypeOK, StepStackInv, StepControlInv, StepWantInv, StepRegistry,
     StepFailsOnlyIfUnserved, StepAtHand DEF IInv
<1> QED
  BY InitIInv, <1>1, PTL DEF Spec

\* Every variable keeps its type, whatever callers, files and types there are.
THEOREM TypeCorrect == Spec => []TypeOK
<1>1. IInv => TypeOK
  BY DEF IInv
<1> QED
  BY <1>1, Invariance, PTL

\* Callers that register the same files never make each other fail.
THEOREM FailsOnlyWhenUnserved == Spec => []FailsOnlyIfUnserved
<1>1. IInv => FailsOnlyIfUnserved
  BY DEF IInv
<1> QED
  BY <1>1, Invariance, PTL

\* The recursion only ever works down the import graph.
THEOREM StackAlwaysDescends == Spec => []StackDescends
<1>1. IInv => StackDescends
  <2> SUFFICES ASSUME IInv, NEW c \in Callers, NEW i \in DOMAIN stack[c],
                      NEW j \in DOMAIN stack[c], i < j
               PROVE  stack[c][j].file \in TransDeps(stack[c][i].file)
    BY DEF StackDescends
  <2>1. DOMAIN stack[c] = 1..Len(stack[c])
    BY LenProperties DEF IInv, TypeOK
  <2> QED
    BY <2>1 DEF IInv, StackInv, Sound, FileAt
<1> QED
  BY <1>1, Invariance, PTL

\* As imports have no cycles, no resolution is at work on a file twice, so the
\* recursion is never deeper than there are files.
THEOREM NeverFileTwice == Spec => []NoFileTwice
<1>1. IInv => NoFileTwice
  <2> SUFFICES ASSUME IInv, NEW c \in Callers, NEW i \in DOMAIN stack[c],
                      NEW j \in DOMAIN stack[c],
                      FileAt(stack[c], i) = FileAt(stack[c], j)
               PROVE  i = j
    BY DEF NoFileTwice, FileAt
  <2>1. DOMAIN stack[c] = 1..Len(stack[c]) /\ Len(stack[c]) \in Nat
    BY LenProperties DEF IInv, TypeOK
  <2>2. FileAt(stack[c], i) \notin TransDeps(FileAt(stack[c], i))
    BY <2>1, FramesTyped, RegistryAssumption DEF IInv, TypeOK
  <2>3. ~(i < j) /\ ~(j < i)
    BY <2>1, <2>2 DEF IInv, StackInv, Sound
  <2> QED
    BY <2>1, <2>3
<1> QED
  BY <1>1, Invariance, PTL

\* protodesc.NewFile() never misses an import, nor does RegisterFile() ever find
\* the path taken: between the checks and the registration nothing gets lost.
THEOREM RegistrationAlwaysSucceeds == Spec => []RegistrationSucceeds
<1>1. IInv => RegistrationSucceeds
  BY TopReady DEF IInv, RegistrationSucceeds, CanRegister
<1> QED
  BY <1>1, Invariance, PTL

\* The recursion never goes into a file of which it has no descriptor, though
\* the batch it takes them from grows under its range.
THEOREM DescriptorsAlwaysAtHand == Spec => []DescriptorsAtHand
<1>1. IInv => DescriptorsAtHand
  BY DEF IInv
<1> QED
  BY <1>1, Invariance, PTL

\* A found type can be rendered in full: every file its own reaches, however
\* indirectly, is registered.
THEOREM FoundAlwaysComplete == Spec => []FoundIsComplete
<1>1. IInv => FoundIsComplete
  BY ClosedHasTransDeps DEF IInv, TypeOK, WantInv, FoundIsComplete
<1> QED
  BY <1>1, Invariance, PTL
=============================================================================
