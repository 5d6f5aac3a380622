--------------------------------- MODULE Vm ---------------------------------
(***************************************************************************)
(* `aint run --vm`: the compiler resolves every name of an AIR program to  *)
(* a slot, and the machine runs the code it gives, one instruction a step. *)
(* What it prints and how it ends should be what the interpreter gives.    *)
(***************************************************************************)
EXTENDS Lower

CONSTANTS Programs, \* programs that may be run
          MaxSteps  \* bound on the instructions of a run

VARIABLES
  program,
  compiled,         \* the code of each function and of the top level, which is called ""
  globals,          \* a value for each global slot, counted from 0
  stack, frames,    \* values; for each call the chunk, ip and base
  output,
  status,           \* "running", "finished", an error, "refused" or "panic"
  steps

vars == <<program, compiled, globals, stack, frames, output, status, steps>>

-----------------------------------------------------------------------------
(* The compiler *)

\* Code under construction.  `locals` are the names of the values that lie on the
\* stack above the base of the frame, `blocks` counts the blocks around a statement.
\* `depth` is a history variable: the number of locals where a statement begins.
Compiler(program_) ==
  [code |-> <<>>, locals |-> <<>>, blocks |-> 0, depth |-> <<>>, chunk |-> "",
   functions |-> DeclaredAs("Fn", program_) \cup DeclaredAs("AsyncFn", program_),
   enums |-> FoldLeft(LAMBDA all, e : EnumValues(e) @@ all, <<>>, Declarations(program_, {"Enum"})),
   chunks |-> <<>>, slots |-> <<>>, natives |-> {}, error |-> "none"]

Emit(c, i) == [c EXCEPT !.code = Append(@, i)]
Target(c)  == Len(c.code) + 1
Patch(c, at, target) == [c EXCEPT !.code[at].target = target]
Refuse(c, error) == IF c.error = "none" THEN [c EXCEPT !.error = error] ELSE c

\* Faulty: the first local of a name.
ResolveFirst(locals, x) == CHOOSE i \in DOMAIN locals : locals[i] = x /\ \A j \in 1..i-1 : locals[j] # x

Resolve(locals, x) ==
  CHOOSE i \in DOMAIN locals : locals[i] = x /\ \A j \in i+1..Len(locals) : locals[j] # x

\* Locals hide the constants of enums, and these hide globals.
CompileName(c, x) ==
  IF x \in ToSet(c.locals) THEN Emit(c, [op |-> "GetLocal", slot |-> Resolve(c.locals, x) - 1])
  ELSE IF x \in DOMAIN c.enums THEN Emit(c, [op |-> "PushConst", value |-> c.enums[x]])
  ELSE IF x \in DOMAIN c.slots THEN Emit(c, [op |-> "GetGlobal", slot |-> c.slots[x]])
  ELSE Refuse(c, "UndefinedName")

CompileCall(c, f, argc) ==
  IF f = "print" THEN Emit(c, [op |-> "Print"])
  ELSE IF f \in c.functions THEN Emit(c, [op |-> "CallFn", chunk |-> f, argc |-> argc])
  ELSE IF f \in c.natives THEN Emit(c, [op |-> "CallNative", native |-> f, argc |-> argc])
  ELSE Refuse(c, "UndefinedName")

RECURSIVE CompileExpr(_, _)
CompileExpr(c, e) ==
  LET parts == FoldLeft(LAMBDA d, part : CompileExpr(d, part), c, e.parts)
      count == Len(e.parts)
  IN CASE e.kind \in Literals -> Emit(c, [op |-> "PushConst", value |-> LiteralValue(e)])
       [] e.kind = "Identifier" -> CompileName(c, e.text)
       [] e.kind = "Unary"  -> Emit(parts, [op |-> "Unary", operator |-> e.text])
       [] e.kind = "Binary" -> Emit(parts, [op |-> "Binary", operator |-> e.text])
       [] e.kind = "List"   -> Emit(parts, [op |-> "MakeList", count |-> count])
       [] e.kind = "Index"  -> Emit(parts, [op |-> "Index"])
       [] e.kind = "NamedCall" -> CompileCall(parts, e.text, count)
       [] e.kind \in {"Await", "InferCall", "ToolCall", "Distribution"} -> Refuse(c, "Unsupported")

RECURSIVE CompileStmt(_, _)

CompileStatements(c, ss) ==
  FoldLeft(LAMBDA d, s : CompileStmt([d EXCEPT !.depth = (Target(d) :> Len(d.locals)) @@ @], s), c, ss)

\* Faulty: the locals of a block stay on the stack.
LeaveBlockUnpopped(c, inner) == [inner EXCEPT !.locals = c.locals, !.blocks = c.blocks]

\* The end of a block: one Pop for each local that goes out of scope.
LeaveBlock(c, inner) ==
  [inner EXCEPT !.locals = c.locals, !.blocks = c.blocks,
                !.code = @ \o [i \in 1..Len(inner.locals) - Len(c.locals) |-> [op |-> "Pop"]]]

CompileBlock(c, b) == LeaveBlock(c, CompileStatements([c EXCEPT !.blocks = @ + 1], b.parts))

\* The jumps over the branches are patched when it is known where these end.
EndElse(then, else) == Patch(else, Target(then), Target(else))
EndThen(cond, then, s) ==
  IF s.parts[3] = Absent THEN Patch(then, Target(cond), Target(then))
  ELSE EndElse(then, CompileBlock(Patch(Emit(then, [op |-> "Jump", target |-> 0]), Target(cond), Target(then) + 1),
                                  s.parts[3]))
EndCondition(cond, s) ==
  EndThen(cond, CompileBlock(Emit(cond, [op |-> "JumpIfFalse", target |-> 0]), s.parts[2]), s)
CompileIf(c, s) == EndCondition(CompileExpr(c, s.parts[1]), s)

\* A `let` at the root of the top level is a global, any other a local.
Store(c, x) ==
  LET slot == Cardinality(DOMAIN c.slots)
  IN IF c.chunk = "" /\ c.blocks = 0
     THEN [Emit(c, [op |-> "SetGlobal", slot |-> slot]) EXCEPT !.slots = (x :> slot) @@ @]
     ELSE [c EXCEPT !.locals = Append(@, x)]
CompileLet(c, s) == Store(CompileExpr(c, s.parts[1]), s.text)

\* The start of a body: its code and its locals are its own.
BeginBody(c, s) ==
  [c EXCEPT !.code = <<>>, !.depth = <<>>, !.blocks = 0, !.chunk = s.text,
            !.locals = [i \in DOMAIN s.parts[1].parts |-> s.parts[1].parts[i].text]]

\* Faulty: a body that returns on no path gets no return.
CompileBodyFallsOff(c, s) == CompileBlock(BeginBody(c, s), s.parts[4])

\* A body that falls through returns the unit value.
CompileBody(c, s) ==
  Emit(Emit(CompileBlock(BeginBody(c, s), s.parts[4]), [op |-> "PushConst", value |-> UnitValue]), [op |-> "Return"])

\* A body sees the globals that were declared before it; the last one of a name stays.
\* A function that is declared in a block only has no place reserved for it.
EndBody(c, s, body) ==
  LET done == [c EXCEPT !.chunks = (s.text :> [code |-> body.code, depth |-> body.depth]) @@ body.chunks,
                        !.natives = body.natives, !.error = body.error]
  IN IF s.text \in c.functions THEN done ELSE Refuse(done, "panic")
CompileFn(c, s) == IF s.kind = "AsyncFn" THEN Refuse(c, "Unsupported") ELSE EndBody(c, s, CompileBody(c, s))

CompileStmt(c, s) ==
  CASE s.kind = "Let" -> CompileLet(c, s)
    [] s.kind = "If" -> CompileIf(c, s)
    [] s.kind = "Expr" -> Emit(CompileExpr(c, s.parts[1]), [op |-> "Pop"])
    [] s.kind = "Return" -> Emit(CompileExpr(c, s.parts[1]), [op |-> "Return"])
    [] s.kind = "Assert" -> Emit(CompileExpr(c, s.parts[1]), [op |-> "AssertTrue"])
    [] s.kind \in {"Fn", "AsyncFn"} -> CompileFn(c, s)
    [] s.kind = "Import" -> [c EXCEPT !.natives = @ \cup DOMAIN ModuleBindings[s.text]]
    [] s.kind \in {"Infer", "Tool", "Enum", "Test", "Budget", "Mock"} -> c

Assembled(c) ==
  [chunks |-> ("" :> [code |-> c.code, depth |-> c.depth]) @@ c.chunks,
   global_count |-> Cardinality(DOMAIN c.slots), error |-> c.error]
CompileProgram(air) == Assembled(CompileStatements(Compiler(air), air.parts))

Unlowered == [chunks |-> ("" :> [code |-> <<>>, depth |-> <<>>]), global_count |-> 0, error |-> "refused"]

-----------------------------------------------------------------------------
(* The machine *)

Frame == frames[Len(frames)]
Chunk == compiled.chunks[Frame.chunk].code
Instr == Chunk[Frame.ip]
Runs(op) == /\ status = "running" /\ steps < MaxSteps
            /\ Frame.ip <= Len(Chunk) /\ Instr.op = op
            /\ steps' = steps + 1

Peek(n)    == stack[Len(stack) - n + 1]
Top(n)     == SubSeq(stack, Len(stack) - n + 1, Len(stack))
Drop(n)    == SubSeq(stack, 1, Len(stack) - n)
Jumped(ip) == [frames EXCEPT ![Len(frames)].ip = ip]
Advance    == frames' = Jumped(Frame.ip + 1)

\* An operation takes n values off the stack and pushes its result, or fails.
Applies(n, r) ==
  /\ IF r.flow = "normal" THEN stack' = Append(Drop(n), r.value) /\ UNCHANGED status
     ELSE stack' = Drop(n) /\ status' = r.flow
  /\ Advance /\ UNCHANGED <<program, compiled, globals, output>>

PushConst == Runs("PushConst") /\ Applies(0, Gives(<<>>, Instr.value))
GetLocal  == Runs("GetLocal") /\ Applies(0, Gives(<<>>, stack[Frame.base + Instr.slot + 1]))
UnaryOp   == Runs("Unary") /\ Applies(1, EvalUnary(<<>>, Instr.operator, Peek(1)))
BinaryOp  == Runs("Binary") /\ Applies(2, EvalBinary(<<>>, Instr.operator, Peek(2), Peek(1)))
MakeList  == Runs("MakeList") /\ Applies(Instr.count, Gives(<<>>, ListValue(Top(Instr.count))))
IndexOp   == Runs("Index") /\ Applies(2, EvalIndex(<<>>, Peek(2), Peek(1)))
NativeOp  == Runs("CallNative") /\ Applies(Instr.argc, CallNative(<<>>, Instr.native, Top(Instr.argc)))

\* A slot beyond the globals is a panic.
GetGlobal ==
  /\ Runs("GetGlobal")
  /\ Applies(0, IF Instr.slot \in DOMAIN globals THEN Gives(<<>>, globals[Instr.slot]) ELSE Fails(<<>>, "panic"))

\* Faulty: the globals grow to hold the slot.
SetGlobalGrows ==
  /\ Runs("SetGlobal")
  /\ stack' = Drop(1) /\ globals' = (Instr.slot :> Peek(1)) @@ globals
  /\ Advance /\ UNCHANGED <<program, compiled, output, status>>

SetGlobal ==
  /\ Runs("SetGlobal")
  /\ stack' = Drop(1)
  /\ IF Instr.slot \in DOMAIN globals
     THEN globals' = [globals EXCEPT ![Instr.slot] = Peek(1)] /\ UNCHANGED status
     ELSE status' = "panic" /\ UNCHANGED globals
  /\ Advance /\ UNCHANGED <<program, compiled, output>>

Pop ==
  /\ Runs("Pop")
  /\ stack' = Drop(1)
  /\ Advance /\ UNCHANGED <<program, compiled, globals, output, status>>

PrintTop ==
  /\ Runs("Print")
  /\ output' = Append(output, Peek(1))
  /\ stack' = Append(Drop(1), UnitValue)
  /\ Advance /\ UNCHANGED <<program, compiled, globals, status>>

Jump ==
  /\ Runs("Jump")
  /\ frames' = Jumped(Instr.target)
  /\ UNCHANGED <<program, compiled, globals, stack, output, status>>

JumpIfFalse ==
  /\ Runs("JumpIfFalse")
  /\ frames' = Jumped(IF Peek(1) = BoolValue(FALSE) THEN Instr.target ELSE Frame.ip + 1)
  /\ status' = IF Peek(1).type = "Bool" THEN status ELSE "TypeMismatch"
  /\ stack' = Drop(1)
  /\ UNCHANGED <<program, compiled, globals, output>>

CallFn ==
  /\ Runs("CallFn")
  /\ frames' = Append(Jumped(Frame.ip + 1),
                      [chunk |-> Instr.chunk, ip |-> 1, base |-> Len(stack) - Instr.argc])
  /\ UNCHANGED <<program, compiled, globals, stack, output, status>>

AssertTrue ==
  /\ Runs("AssertTrue")
  /\ status' = IF Peek(1).type # "Bool" THEN "TypeMismatch"
               ELSE IF Peek(1) = BoolValue(TRUE) THEN status ELSE "AssertionFailed"
  /\ stack' = Drop(1)
  /\ Advance /\ UNCHANGED <<program, compiled, globals, output>>

ReturnOp ==
  /\ Runs("Return")
  /\ stack' = Append(SubSeq(stack, 1, Frame.base), Peek(1))
  /\ frames' = SubSeq(frames, 1, Len(frames) - 1)
  /\ UNCHANGED <<program, compiled, globals, output, status>>

\* The code of the top level is at its end.
Finish ==
  /\ status = "running" /\ Frame.ip > Len(Chunk)
  /\ status' = "finished"
  /\ UNCHANGED <<program, compiled, globals, stack, frames, output, steps>>

Next ==
  \/ PushConst \/ GetLocal \/ GetGlobal \/ SetGlobal \/ Pop \/ UnaryOp \/ BinaryOp
  \/ MakeList \/ IndexOp \/ NativeOp \/ PrintTop
  \/ Jump \/ JumpIfFalse \/ CallFn \/ AssertTrue \/ ReturnOp \/ Finish

\* Programs that type-check; one that does not lower or compile is refused before it runs.
Init ==
  /\ program \in {p \in Programs : WellTyped(p)}
  /\ compiled = IF Lowers(program) THEN CompileProgram(Lowered(program)) ELSE Unlowered
  /\ globals = [i \in 0..compiled.global_count - 1 |-> UnitValue]
  /\ stack = <<>> /\ output = <<>> /\ steps = 0
  /\ status = CASE compiled.error = "none" -> "running"
                [] compiled.error = "panic" -> "panic"
                [] OTHER -> "refused"
  /\ frames = <<[chunk |-> "", ip |-> 1, base |-> 0]>>

Spec == Init /\ [][Next]_vars

-----------------------------------------------------------------------------
(* What should hold *)

Started == steps = 0 /\ status # "finished"
Ended   == status \notin {"running", "panic", "refused"}

Callables == {"Fn", "AsyncFn", "Infer", "Tool"}

\* The names that a statement binds, those it mentions, and those that the bodies of its
\* functions mention, which are looked up when they run.
DeclaredBy(s) ==
  CASE s.kind \in {"Let"} \cup Callables -> {s.text}
    [] s.kind = "Enum"   -> DOMAIN EnumValues(s)
    [] s.kind = "Import" -> DOMAIN ModuleBindings[s.text]
    [] OTHER -> {}
Mentions(s) == {n.text : n \in {m \in NodesOf(s) : m.kind = "Identifier"}}
Captures(s) == UNION {Mentions(n) : n \in {m \in NodesOf(s) : m.kind \in {"Fn", "AsyncFn", "Tool", "Lambda"}}}

BlocksOf(prog) == {n \in NodesOf(prog) : n.kind \in {"Program", "Block"}}
Bound(prog)    == UNION {DeclaredBy(n) : n \in NodesOf(prog)} \cup {n.text : n \in {m \in NodesOf(prog) : m.kind = "Param"}}

\* A statement of the root whose names nothing else in the program has.
OwnNames(prog, s) ==
  \A n \in NodesOf(prog) :
    (IF n.kind = "Param" THEN {n.text} ELSE DeclaredBy(n)) \cap DeclaredBy(s) # {} =>
      n = s /\ Cardinality({i \in DOMAIN prog.parts : prog.parts[i] = s}) = 1

\* What a function mentions is not declared again after it was made, nor first then,
\* unless it is hoisted.  Without this a program that type-checks may still fail with a
\* type error, see the README.
Settled(prog) ==
  /\ "print" \notin Bound(prog)
  /\ \A n \in NodesOf(prog) : n.kind \in {"Enum", "Tool"} => OwnNames(prog, n)
  /\ \A b \in BlocksOf(prog) : \A i, j \in DOMAIN b.parts :
       LET s == b.parts[j] IN
       i <= j /\ DeclaredBy(s) \cap Captures(b.parts[i]) # {} =>
         \/ i = j /\ s.kind \in Callables
         \/ b = prog /\ s.kind # "Let" /\ OwnNames(prog, s)

\* No name is declared twice at the root or hides `print`, and no function is declared
\* in a block.  The engines differ on the other programs: the README says how.
Plain(prog) ==
  /\ "print" \notin Bound(prog)
  /\ \A i, j \in DOMAIN prog.parts : i # j => DeclaredBy(prog.parts[i]) \cap DeclaredBy(prog.parts[j]) = {}
  /\ \A b \in BlocksOf(prog) : b # prog => \A i \in DOMAIN b.parts : b.parts[i].kind \notin {"Fn", "AsyncFn"}

\* A name means the same throughout a block, and tools print nothing.
Steady(prog) ==
  /\ \A n \in NodesOf(prog) : n.kind \in {"Infer", "Tool"} => OwnNames(prog, n)
  /\ \A n \in NodesOf(prog) : n.kind = "Tool" => "print" \notin Mentions(n)
  /\ \A b \in BlocksOf(prog) : \A i, j \in DOMAIN b.parts :
       LET s == b.parts[j] IN
         /\ i <= j /\ s.kind = "Let" => s.text \notin Mentions(b.parts[i])
         /\ i < j => DeclaredBy(s) \cap DeclaredBy(b.parts[i]) = {}

\* Locals (compiler.rs) promises that the list of names it keeps is "in exact lockstep
\* with how many values are actually sitting on the stack for this frame": whatever path
\* through branches, blocks, early returns and calls led there, a statement starts with
\* exactly the values on the stack that the compiler counted, or GetLocal reads a
\* neighbour's value.  Only the top level runs off the end of its code (an assertion of
\* vm.rs), and nothing is left on the stack then.
LocalsInLockstep ==
  /\ status = "running" =>
       LET depth == compiled.chunks[Frame.chunk].depth IN
         Frame.ip \in DOMAIN depth => Len(stack) - Frame.base = depth[Frame.ip]
  /\ status = "finished" => Len(frames) = 1 /\ stack = <<>>

\* A program gives the same output and the same error in both engines, and the machine
\* does not panic, if the program is plain and declares every function before a call
\* reaches it (the interpreter does not hoist functions).
Agrees(reference) ==
  reference.error # "UndefinedVariable" =>
    /\ Ended
    /\ output = reference.output
    /\ IF status = "finished" THEN reference.error = "none" ELSE reference.error = status
EnginesAgree == status \notin {"running", "refused"} /\ Plain(program) => Agrees(Interpreted(program))

TypeErrors == {"TypeMismatch", "NotCallable", "ArityMismatch"}

\* A settled program that type-checks does not fail with a type error when it runs,
\* through whatever closures, branches, async functions and answers it computes.
TypeSound == Started /\ Settled(program) => Interpreted(program).error \notin TypeErrors

\* Contradicted by the code, see PROJECT.json "findings": no program that type-checks
\* fails with a type error when it runs.
NoTypeErrors == Started => Interpreted(program).error \notin TypeErrors

\* No function asks the model or calls a tool that its effects clause leaves out, neither
\* itself nor through what it calls, if every await stands at its call.
EffectsRespected ==
  /\ Started /\ Settled(program)
  /\ \A n \in NodesOf(program) : n.kind = "Await" => n.parts[1].kind = "Call"
  => Interpreted(program).breaches = {}

\* Removing repeated calls changes neither what a program prints nor how it ends.
Seen(outcome)  == <<outcome.output, outcome.error>>
Observed(prog) == Seen(Interpreted(prog))
OptimizeKeeps ==
  Started /\ Lowers(program) /\ Steady(program) =>
    Observed(program) = Observed(Raised(Optimize(Lowered(program))))
=============================================================================
