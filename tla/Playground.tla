------------------------------ MODULE Playground ------------------------------
(***************************************************************************)
(* The interpreter in a web page (src/index.html): how the script          *)
(* playground/umka.js starts WebAssembly, how the page calls runPlayground *)
(* (src/src/umka.c), and how what a program prints reaches the text area.  *)
(*                                                                         *)
(* JavaScript runs each handler to its end, so that a handler is a step:   *)
(* the evaluation of the script, the outcome of the instantiation, which   *)
(* comes later, and a click on "Run" at any time.                          *)
(***************************************************************************)
EXTENDS Integers, Sequences, SequencesExt

CONSTANTS
  MaxRuns,       \* bound on the number of programs that are run
  MaxWrites,     \* bound on the number of writes of a program
  EarlyClicks,   \* may "Run" be clicked after the script was evaluated, but before it is ready
  OddLines       \* may a program print a line to stderr that looks like an error message,
                 \* but has no number of a line of the source

ASSUME PlaygroundAssumption ==
  /\ MaxRuns \in Nat /\ MaxWrites \in Nat
  /\ EarlyClicks \in BOOLEAN /\ OddLines \in BOOLEAN

VARIABLES
  script,     \* is umka.js "absent", "evaluated" or "failed"
  wasm,       \* wasmExports is "empty" or an "instance"
  stackSave,  \* the variable: a "lazy" function that binds itself, a "bound" one, or "undefined"
  loader,     \* runDependencies, dependenciesFulfilled, calledRun, runtimeInitialized
  runs,       \* programs run
  text        \* what has been printed, what waits in the buffers, what has been shown

vars == <<script, wasm, stackSave, loader, runs, text>>

Streams == {"stdout", "stderr"}

Init ==
  /\ script = "absent"
  /\ wasm = "empty"
  /\ stackSave = "lazy"
  /\ loader = [runDependencies |-> 0, dependenciesFulfilled |-> FALSE,
               calledRun |-> FALSE, inits |-> 0]
  /\ runs = 0
  /\ text = [printed |-> [s \in Streams |-> <<>>], buffer |-> [s \in Streams |-> <<>>],
             shown |-> [s \in Streams |-> <<>>]]

(***************************************************************************)
(* Starting.  runtimeInitialized is inits > 0.                             *)
(***************************************************************************)
\* run: nothing, as long as something is awaited
Run(l) ==
  IF l.runDependencies > 0 \/ l.calledRun THEN l
  ELSE [l EXCEPT !.calledRun = TRUE, !.inits = @ + 1]

\* Mutant: the instance is not awaited
AddNoRunDependency(l) == l

AddRunDependency(l) == [l EXCEPT !.runDependencies = @ + 1]

\* dependenciesFulfilled is runCaller, which puts itself back if run has done nothing
RunCaller(l) ==
  LET r == IF l.calledRun THEN l ELSE Run(l)
  IN  [r EXCEPT !.dependenciesFulfilled = ~r.calledRun]

RemoveRunDependency(l) ==
  LET r == [l EXCEPT !.runDependencies = @ - 1]
  IN  IF r.runDependencies = 0 /\ r.dependenciesFulfilled
      THEN RunCaller([r EXCEPT !.dependenciesFulfilled = FALSE]) ELSE r

\* createWasm asks for an instance, dependenciesFulfilled is set, and run is called
EvaluateScript ==
  /\ script = "absent"
  /\ script' = "evaluated"
  /\ loader' = Run([AddRunDependency(loader) EXCEPT !.dependenciesFulfilled = TRUE])
  /\ UNCHANGED <<wasm, stackSave, runs, text>>

Awaited == script = "evaluated" /\ wasm = "empty"

\* receiveInstance
ReceiveInstance ==
  /\ Awaited
  /\ wasm' = "instance"
  /\ loader' = RemoveRunDependency(loader)
  /\ UNCHANGED <<script, stackSave, runs, text>>

\* abort: ABORT is TRUE from then on
InstantiationFails ==
  /\ Awaited
  /\ script' = "failed"
  /\ UNCHANGED <<wasm, stackSave, loader, runs, text>>

(***************************************************************************)
(* Printing.  Text stays in the buffer of its stream until its line ends;  *)
(* the buffers live as long as the page.                                   *)
(***************************************************************************)
Writes == [to : Streams, newline : BOOLEAN, odd : BOOLEAN]

Buffered(t, s, piece) ==
  [t EXCEPT !.printed[s] = Append(@, piece), !.buffer[s] = Append(@, piece)]

\* Mutant: an unfinished line is forgotten
ShowLineOfRun(t, s) ==
  LET own(piece) == piece[1] = runs + 1
  IN  [t EXCEPT !.shown[s] = @ \o SelectSeq(t.buffer[s], own), !.buffer[s] = <<>>]

\* put_char of a new line: the buffer is emptied after onPrint or onPrintErr has returned
ShowLine(t, s) ==
  [t EXCEPT !.shown[s] = @ \o t.buffer[s], !.buffer[s] = <<>>]

\* onPrintErr shows the line, and fails in selectLine
ShowOddLine(t) == [t EXCEPT !.shown["stderr"] = @ \o t.buffer["stderr"]]

Written(t, w, n) ==
  LET u == Buffered(t, w.to, <<runs + 1, n>>)
  IN  IF ~w.newline THEN u
      ELSE IF w.odd THEN ShowOddLine(u) ELSE ShowLine(u, w.to)

WrittenAll(t, writes) ==
  FoldLeft(LAMBDA u, n : Written(u, writes[n], n), t, [n \in DOMAIN writes |-> n])

\* How a program ends: well, or by exit() without a message, with an error at compile
\* time or at run time, or with an exception that nothing in it catches (the stack of
\* JavaScript is exhausted)
Endings == {"ok", "exit", "error", "exception"}

\* runPlayground prints a new line at the end, or the error
Ended(t, ending) ==
  CASE ending = "ok" -> ShowLine(t, "stdout")
    [] ending = "error" -> ShowLine(Buffered(t, "stderr", <<runs + 1, 0>>), "stderr")
    [] OTHER -> t

(***************************************************************************)
(* Clicks.                                                                 *)
(***************************************************************************)
\* stackSave(), called by ccall for the first argument that is a string: when it is
\* called first, the variable is given the function that is exported then, if there is one
Bound ==
  IF stackSave # "lazy" THEN stackSave
  ELSE IF wasm = "instance" THEN "bound" ELSE "undefined"

\* onRun, when ccall fails before the program is called
ClickInVain ==
  /\ script # "absent"
  /\ Awaited => EarlyClicks
  /\ Bound = "undefined"
  /\ stackSave' = Bound
  /\ UNCHANGED <<script, wasm, loader, runs, text>>

Click(writes, ending) ==
  /\ script = "evaluated" /\ Bound = "bound" /\ runs < MaxRuns
  /\ stackSave' = Bound
  /\ runs' = runs + 1
  /\ text' = Ended(WrittenAll(text, writes), ending)
  /\ UNCHANGED <<script, wasm, loader>>

Programs ==
  {writes \in UNION {[1..n -> Writes] : n \in 0..MaxWrites} :
     \A n \in DOMAIN writes :
       writes[n].odd => OddLines /\ writes[n].to = "stderr" /\ writes[n].newline}

Next ==
  \/ EvaluateScript \/ ReceiveInstance \/ InstantiationFails
  \/ ClickInVain
  \/ \E writes \in Programs, ending \in Endings : Click(writes, ending)

\* The browser evaluates the script, and a promise to instantiate is settled
Fairness == WF_vars(EvaluateScript) /\ WF_vars(ReceiveInstance \/ InstantiationFails)

Spec == Init /\ [][Next]_vars /\ Fairness

(***************************************************************************)
(* Properties.                                                             *)
(***************************************************************************)
\* The page can run programs: the runtime was initialized, and no call has bound a
\* variable to a function that did not exist yet
Serving ==
  /\ loader.inits = 1 /\ loader.calledRun /\ loader.runDependencies = 0
  /\ Bound = "bound"

\* Whether the instance comes late or not at all: the page can run programs in the end,
\* with its runtime initialized once, and for ever; or the instantiation has failed
\* (run and removeRunDependency, which call each other again; ccall)
ServesInTheEnd == <>(script = "failed" \/ []Serving)

\* Nothing that programs print is lost, shown twice or out of the order of its stream,
\* also when a program ends in the middle of a line, which the next one then completes
\* (put_char against the end of runPlayground)
PrintedInOrder ==
  \A s \in Streams : text.printed[s] = text.shown[s] \o text.buffer[s]

===============================================================================
