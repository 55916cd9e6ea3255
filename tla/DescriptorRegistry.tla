------------------------- MODULE DescriptorRegistry -------------------------
(***************************************************************************)
(* How reflectionResolver (xds_reflection_resolver.go) turns the files a   *)
(* target sends over reflection into registered message types, while       *)
(* several pages resolve types with the same resolver.                     *)
(*                                                                         *)
(* registerFileDescriptor() recurses over a file's imports and takes r.mu  *)
(* for single look-ups and for the final registration only: between them,  *)
(* and during the fetches, other callers register files.  The recursion is *)
(* a stack of frames, one per file being registered.                       *)
(***************************************************************************)
EXTENDS FiniteSets, Naturals, Sequences, SequencesExt

CONSTANTS
  Callers,  \* goroutines that render
  Files,    \* .proto files of the target
  Types,    \* message types
  Deps,     \* Deps[f]: the files f imports
  FileOf    \* FileOf[t]: the file that defines t

\* The files f needs, directly or not.
Closed(S) == \A f \in S : Deps[f] \subseteq S
TransDeps(f) ==
  {g \in Files : \A S \in SUBSET Files : Deps[f] \subseteq S /\ Closed(S) => g \in S}

ASSUME RegistryAssumption ==
  /\ Deps \in [Files -> SUBSET Files]
  /\ FileOf \in [Types -> Files]
  /\ \A f \in Files : f \notin TransDeps(f)

VARIABLES
  files,    \* the files registered in r.files
  types,    \* the types registered in r.types
  pc,       \* each caller's control point
  want,     \* the type it resolves
  batch,    \* the files it has received
  visit,    \* those registerFileDescriptors() is still going to range over
  stack,    \* its recursion: frames [file, deps still to ensure], top last
  asked,    \* the import it is fetching
  unserved  \* history: whether a fetch of this resolution failed

registryVars == <<files, types>>
vars == <<files, types, pc, want, batch, visit, stack, asked, unserved>>

PCs == {"idle", "lookup", "ask", "visit", "deps", "fetch", "recheck", "found",
        "failed"}
Frames == [file : Files, deps : SUBSET Files]
Top(c) == Last(stack[c])

\* What the target may send when asked for f: f itself, and whichever of the
\* files it needs (those it has not sent on this stream before).
Replies(f) == {{f} \cup S : S \in SUBSET TransDeps(f)}

Goto(c, from, to) == pc[c] = from /\ pc' = [pc EXCEPT ![c] = to]

Init ==
  /\ files = {} /\ types = {}
  /\ pc = [c \in Callers |-> "idle"]
  /\ want \in [Callers -> Types]
  /\ batch = [c \in Callers |-> {}]
  /\ visit = [c \in Callers |-> {}]
  /\ stack = [c \in Callers |-> << >>]
  /\ asked \in [Callers -> Files]
  /\ unserved = [c \in Callers |-> FALSE]

\* The renderer meets an Any (FindMessageByURL): its type is not compiled in.
FindMessage(c, t) ==
  /\ Goto(c, "idle", "lookup")
  /\ want' = [want EXCEPT ![c] = t]
  /\ unserved' = [unserved EXCEPT ![c] = FALSE]
  /\ UNCHANGED <<registryVars, batch, visit, stack, asked>>

\* resolveMessageType() looks the type up.
Lookup(c) ==
  /\ Goto(c, "lookup", IF want[c] \in types THEN "found" ELSE "ask")
  /\ UNCHANGED <<registryVars, want, batch, visit, stack, asked, unserved>>

\* FileContainingSymbol is answered.
SymbolServed(c) ==
  /\ Goto(c, "ask", "visit")
  /\ \E reply \in Replies(FileOf[want[c]]) :
       /\ batch' = [batch EXCEPT ![c] = reply]
       /\ visit' = [visit EXCEPT ![c] = reply]
  /\ UNCHANGED <<registryVars, want, stack, asked, unserved>>

\* A call() fails, for the symbol or for an import, or its answer is of no use
\* (a descriptor that does not parse, an import that is not among the files
\* sent): so does the resolution, at once.  What it has registered so far stays
\* registered.
CallFails(c) ==
  /\ pc[c] \in {"ask", "fetch"}
  /\ pc' = [pc EXCEPT ![c] = "failed"]
  /\ unserved' = [unserved EXCEPT ![c] = TRUE]
  /\ UNCHANGED <<registryVars, want, batch, visit, stack, asked>>
-----------------------------------------------------------------------------
\* The first steps of registerFileDescriptor(f): nothing to do if f is there.
Enter(c, f) ==
  stack' = [stack EXCEPT ![c] =
              IF f \in files THEN @ ELSE Append(@, [file |-> f, deps |-> Deps[f]])]

VisitFileAgain(c) ==           \* mutant: ranging without getting on
  \E f \in visit[c] :
    /\ Goto(c, "visit", IF f \in files THEN "visit" ELSE "deps")
    /\ Enter(c, f)
    /\ UNCHANGED <<registryVars, want, batch, visit, asked, unserved>>

\* registerFileDescriptors() goes on to any file of the batch.
VisitFile(c) ==
  \E f \in visit[c] :
    /\ Goto(c, "visit", IF f \in files THEN "visit" ELSE "deps")
    /\ visit' = [visit EXCEPT ![c] = @ \ {f}]
    /\ Enter(c, f)
    /\ UNCHANGED <<registryVars, want, batch, asked, unserved>>

VisitedAll(c) ==
  /\ visit[c] = {}
  /\ Goto(c, "visit", "recheck")
  /\ UNCHANGED <<registryVars, want, batch, visit, stack, asked, unserved>>

WithoutDep(s, d) == [s EXCEPT ![Len(s)].deps = @ \ {d}]

\* The next import is registered already.
SkipDep(c) ==
  /\ pc[c] = "deps"
  /\ \E d \in Top(c).deps \cap files :
       stack' = [stack EXCEPT ![c] = WithoutDep(@, d)]
  /\ UNCHANGED <<registryVars, pc, want, batch, visit, asked, unserved>>

\* It is in the batch: recurse, after one more look whether it is there.
RecurseInto(c, d) ==
  stack' = [stack EXCEPT ![c] = Append(WithoutDep(@, d), [file |-> d, deps |-> Deps[d]])]

BatchedDepRetried(c) ==        \* mutant: the import is never ticked off
  /\ pc[c] = "deps"
  /\ \E d \in (Top(c).deps \cap batch[c]) \ files :
       stack' = [stack EXCEPT ![c] = Append(@, [file |-> d, deps |-> {d}])]
  /\ UNCHANGED <<registryVars, pc, want, batch, visit, asked, unserved>>

BatchedDepUnchecked(c) ==      \* mutant: batch[dep] is taken without its ok
  /\ pc[c] = "deps"
  /\ \E d \in Top(c).deps \ files :
       stack' = [stack EXCEPT ![c] = Append(WithoutDep(@, d), [file |-> d, deps |-> {}])]
  /\ UNCHANGED <<registryVars, pc, want, batch, visit, asked, unserved>>

BatchedDepLeft(c) ==           \* mutant: left to the range over the batch
  /\ pc[c] = "deps"
  /\ \E d \in (Top(c).deps \cap batch[c]) \ files :
       stack' = [stack EXCEPT ![c] = WithoutDep(@, d)]
  /\ UNCHANGED <<registryVars, pc, want, batch, visit, asked, unserved>>

BatchedDep(c) ==
  /\ pc[c] = "deps"
  /\ \E d \in (Top(c).deps \cap batch[c]) \ files : RecurseInto(c, d)
  /\ UNCHANGED <<registryVars, pc, want, batch, visit, asked, unserved>>

\* It is neither: FileByFilename.
MissingDep(c) ==
  /\ Goto(c, "deps", "fetch")
  /\ \E d \in (Top(c).deps \ batch[c]) \ files : asked' = [asked EXCEPT ![c] = d]
  /\ UNCHANGED <<registryVars, want, batch, visit, stack, unserved>>

\* The answer joins the batch, which is being ranged over: a range may or may
\* not produce an entry added meanwhile.  Others may have registered the file.
DepServed(c) ==
  /\ Goto(c, "fetch", "deps")
  /\ \E reply \in Replies(asked[c]) :
       /\ batch' = [batch EXCEPT ![c] = @ \cup reply]
       /\ \E seen \in SUBSET (reply \ batch[c]) :
            visit' = [visit EXCEPT ![c] = @ \cup seen]
  /\ UNCHANGED <<registryVars, want, stack, asked, unserved>>
-----------------------------------------------------------------------------
Pop(c) ==
  /\ stack' = [stack EXCEPT ![c] = Front(@)]
  /\ pc' = [pc EXCEPT ![c] = IF Len(stack[c]) = 1 THEN "visit" ELSE "deps"]

\* protodesc.NewFile() needs every import, RegisterFile() a path not in use.
CanRegister(f) == Deps[f] \subseteq files /\ f \notin files

RegisterUnchecked(c) ==        \* mutant: no second look at r.files
  /\ pc[c] = "deps" /\ Top(c).deps = {}
  /\ LET f == Top(c).file
     IN  IF CanRegister(f)
         THEN /\ files' = files \cup {f}
              /\ types' = types \cup {t \in Types : FileOf[t] = f}
              /\ Pop(c)
         ELSE /\ pc' = [pc EXCEPT ![c] = "failed"]
              /\ UNCHANGED <<registryVars, stack>>
  /\ UNCHANGED <<want, batch, visit, asked, unserved>>

\* All imports are ensured: in one critical section, see whether somebody else
\* has registered the file; if not, build and register it with its types.
Register(c) ==
  /\ pc[c] = "deps" /\ Top(c).deps = {}
  /\ LET f == Top(c).file
     IN  \/ /\ f \in files
            /\ Pop(c)
            /\ UNCHANGED registryVars
         \/ /\ f \notin files /\ CanRegister(f)
            /\ files' = files \cup {f}
            /\ types' = types \cup {t \in Types : FileOf[t] = f}
            /\ Pop(c)
         \/ /\ f \notin files /\ ~CanRegister(f)
            /\ pc' = [pc EXCEPT ![c] = "failed"]
            /\ UNCHANGED <<registryVars, stack>>
  /\ UNCHANGED <<want, batch, visit, asked, unserved>>

\* The last look-up of resolveMessageType().
Recheck(c) ==
  /\ Goto(c, "recheck", IF want[c] \in types THEN "found" ELSE "failed")
  /\ UNCHANGED <<registryVars, want, batch, visit, stack, asked, unserved>>

\* FindMessageByURL() renders the type, or google.protobuf.Empty in its place.
Render(c) ==
  /\ pc[c] \in {"found", "failed"}
  /\ pc' = [pc EXCEPT ![c] = "idle"]
  /\ batch' = [batch EXCEPT ![c] = {}]
  /\ visit' = [visit EXCEPT ![c] = {}]
  /\ stack' = [stack EXCEPT ![c] = << >>]
  /\ UNCHANGED <<registryVars, want, asked, unserved>>

ResolveStep(c) ==
  \/ Lookup(c) \/ SymbolServed(c) \/ CallFails(c)
  \/ VisitFile(c) \/ VisitedAll(c)
  \/ SkipDep(c) \/ BatchedDep(c) \/ MissingDep(c) \/ DepServed(c)
  \/ Register(c) \/ Recheck(c)

Next ==
  \E c \in Callers :
    ResolveStep(c) \/ Render(c) \/ \E t \in Types : FindMessage(c, t)

\* Goroutines run, and every call() ends somehow.
Fairness == \A c \in Callers : WF_vars(ResolveStep(c))

Spec == Init /\ [][Next]_vars
FairSpec == Spec /\ Fairness
-----------------------------------------------------------------------------
\* Every variable has its type.
TypeOK ==
  /\ files \subseteq Files
  /\ types \subseteq Types
  /\ pc \in [Callers -> PCs]
  /\ want \in [Callers -> Types]
  /\ batch \in [Callers -> SUBSET Files]
  /\ visit \in [Callers -> SUBSET Files]
  /\ stack \in [Callers -> Seq(Frames)]
  /\ asked \in [Callers -> Files]
  /\ unserved \in [Callers -> BOOLEAN]

\* When the imports of a file have been gone through one by one, with r.mu given
\* up in between and other pages registering files, all of them are registered:
\* protodesc.NewFile() misses none, and RegisterFile() finds the path free, or
\* has been spared ("recursively ensures fd's dependencies are built and
\* registered first").
RegistrationSucceeds ==
  \A c \in Callers :
    pc[c] = "deps" /\ Top(c).deps = {} => Top(c).file \in files \/ CanRegister(Top(c).file)

\* Whatever the recursion is at work on, or goes on to, is in the batch: it never
\* goes into an import of which it has no descriptor, which would be taken for a
\* file that imports nothing.
DescriptorsAtHand ==
  \A c \in Callers :
    /\ visit[c] \subseteq batch[c]
    /\ \A i \in DOMAIN stack[c] : stack[c][i].file \in batch[c]

\* A resolution fails only if the target failed to serve something: two pages
\* that register the same files at the same time do not make each other fail
\* ("registered by a recursive call above while we were fetching deps").
FailsOnlyIfUnserved == \A c \in Callers : pc[c] = "failed" => unserved[c]

\* The recursion works down the import graph: each frame is an import of the
\* one below it, so no file is being registered twice in one resolution.
StackDescends ==
  \A c \in Callers : \A i, j \in DOMAIN stack[c] :
    i < j => stack[c][j].file \in TransDeps(stack[c][i].file)

\* Every resolution ends, however the servings and other pages interleave.
ResolutionEnds == \A c \in Callers : pc[c] = "lookup" ~> pc[c] \in {"found", "failed"}
=============================================================================
