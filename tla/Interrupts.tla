----------------------------- MODULE Interrupts ----------------------------
(***************************************************************************)
(* How interrupts reach the kernel: the two 8259 interrupt controllers as  *)
(* pic.c programs them, the descriptor table and the shims of boot64.s,    *)
(* the handlers, and kernel_main's boot, which enables interrupts before   *)
(* it has installed the timer's and the keyboard's handlers.               *)
(*                                                                         *)
(* The controllers, the keyboard and the interrupt flag are hardware.      *)
(* Every gate is an interrupt gate, so a handler runs with interrupts off  *)
(* and a handler that executes hlt stops the machine for good.  Other      *)
(* lines than the timer's and the keyboard's stand for whatever devices    *)
(* the firmware left unmasked.                                             *)
(***************************************************************************)
EXTENDS Integers, Sequences, SequencesExt

CONSTANTS
  OtherLines,     \* request lines of devices the kernel has no handler for
  FirmwareMasks,  \* the masks firmware may leave in the controllers
  PlainKeys,      \* keys with a one-byte make code and a character
  SilentKeys,     \* keys with a one-byte make code and no character
  ExtendedKeys,   \* keys whose codes begin with 0xE0
  Faults,         \* vectors of the exceptions main may raise
  MaxTicks,       \* bound on the timer's ticks
  MaxKeys         \* bound on key presses and releases

ASSUME LinesAssumption == OtherLines \subseteq (3 .. 15)

ASSUME FaultsAssumption == Faults \subseteq (0 .. 31)

ASSUME BoundsAssumption == MaxTicks \in Nat /\ MaxKeys \in Nat

TimerLine    == 0
KeyboardLine == 1
CascadeLine  == 2
Lines == {TimerLine, KeyboardLine, CascadeLine} \cup OtherLines
SlaveLines == Lines \cap (8 .. 15)

ASSUME MasksAssumption == FirmwareMasks \subseteq SUBSET Lines

VARIABLES
  pc,           \* where kernel_main is
  functions,    \* interrupt_functions: vector |-> handler
  irr, isr, imr,  \* the controllers: requested, in service, masked lines
  mask,         \* the local variable that holds masks read from the ports
  iflag,        \* the interrupt flag
  vector,       \* the vector whose shim runs, or NoVector
  line,         \* the request line it came by, or NoLine for an exception
  shim,         \* "call", "eoi" or "iret": where the shim is
  halted,       \* the CPU executed hlt with interrupts off
  faulting,     \* the exception main's current instruction raises
  kbd,          \* bytes the keyboard sent, not yet read
  obf,          \* the first of them is in the output buffer
  released,     \* keyboard_key_released
  printed,      \* what the handlers printed
  pressed,      \* history: the characters of the keys pressed, in order
  ticks, keys,  \* events so far
  edgeLost,     \* history: pic_init dropped a keyboard request
  translated    \* history: a byte came in the firmware's scan codes

hardware == <<irr, isr, imr, iflag, obf, kbd>>
cpu == <<vector, line, shim, halted, faulting>>
events == <<pressed, ticks, keys, edgeLost, translated>>

vars == <<pc, functions, mask, released, printed, hardware, cpu, events>>

-----------------------------------------------------------------------------

NoVector == -1
NoLine == -1

\* The vectors the code uses: exceptions, the timer, the keyboard, the rest.
TimerVector == 32
KeyboardVector == 33
Vectors == (0 .. 31) \cup {32 + l : l \in Lines}

\* Mutant: the vectors firmware programs, which are those of exceptions.
VectorOf_NotRemapped(l) == IF l < 8 THEN 8 + l ELSE 32 + l

\* The controllers deliver line l as vector 0x20 + l, slave lines included.
VectorOf(l) == 32 + l

\* The scan codes that matter: the key that is released follows 0xF0, an
\* extended key's codes begin with 0xE0.
KeyReleasedCode == "F0"
ExtendedCode == "E0"
Keys == PlainKeys \cup SilentKeys \cup ExtendedKeys

\* Any code of the set the firmware works with; the driver's table is for
\* another set.
FirmwareCode == "set 1"

Bytes == Keys \cup {KeyReleasedCode, ExtendedCode, FirmwareCode}

TimerText == "T"
Junk == "junk"

\* No key has the code of a prefix, or a character that reads as other text.
ASSUME KeysAssumption ==
  Keys \cap {KeyReleasedCode, ExtendedCode, FirmwareCode, TimerText, Junk} = {}

\* Vectors init_exception_handlers fills in; 2 and 15 keep i_ok.
ExceptionVectors == {0, 1} \cup (3 .. 14) \cup (16 .. 20) \cup {30}

\* divide_by_zero_handler returns before its hlt, every other one halts.
ExceptionHandler(v) ==
  IF v = 0 THEN "divide_by_zero_handler" ELSE "halting_handler"

Init ==
  /\ pc = "setup_interrupt_handlers"
  /\ functions = [v \in Vectors |-> "none"]
  /\ irr = {} /\ isr = {} /\ imr \in FirmwareMasks
  /\ mask = {}
  /\ iflag = FALSE
  /\ vector = NoVector /\ line = NoLine /\ shim = "iret"
  /\ halted = FALSE /\ faulting = NoVector
  /\ kbd = << >> /\ obf = FALSE
  /\ released = FALSE
  /\ printed = << >> /\ pressed = << >>
  /\ ticks = 0 /\ keys = 0
  /\ edgeLost = FALSE
  /\ translated = FALSE

-----------------------------------------------------------------------------
(* kernel_main; it runs while no shim does. *)

MainRuns == vector = NoVector /\ ~halted /\ faulting = NoVector

MainStep(from, to) == MainRuns /\ pc = from /\ pc' = to

\* Every vector gets i_ok, which halts, but for the timer's.
setup_interrupt_handlers ==
  /\ MainStep("setup_interrupt_handlers", "pic_init")
  /\ functions' = [v \in Vectors |->
                     IF v = TimerVector THEN "i_ok_timer" ELSE "i_ok"]
  /\ UNCHANGED <<mask, released, printed, hardware, cpu, events>>

\* pic_init reads the masks,
SaveMasks ==
  /\ MainStep("pic_init", "icw")
  /\ mask' = imr
  /\ UNCHANGED <<functions, released, printed, hardware, cpu, events>>

\* sends ICW1 to ICW4, which clear masks and requests: a line that is already
\* high must fall and rise again to be seen,
InitializationWords ==
  /\ MainStep("icw", "restore_masks")
  /\ irr' = {} /\ isr' = {} /\ imr' = {}
  /\ edgeLost' = obf
  /\ UNCHANGED <<functions, mask, released, printed, iflag, obf, kbd, cpu,
                 pressed, ticks, keys, translated>>

\* and restores the masks.
RestoreMasks ==
  /\ MainStep("restore_masks", "init_exception_handlers")
  /\ imr' = mask
  /\ UNCHANGED <<functions, mask, released, printed, irr, isr, iflag, obf, kbd,
                 cpu, events>>

init_exception_handlers ==
  /\ MainStep("init_exception_handlers", "sti")
  /\ functions' = [v \in Vectors |->
                     IF v \in ExceptionVectors THEN ExceptionHandler(v)
                                               ELSE functions[v]]
  /\ UNCHANGED <<mask, released, printed, hardware, cpu, events>>

\* pic_enable_interrupts: sti first,
EnableInterrupts ==
  /\ MainStep("sti", "program_keyboard")
  /\ iflag' = TRUE
  /\ UNCHANGED <<functions, mask, released, printed, irr, isr, imr, obf, kbd,
                 cpu, events>>

\* then the keyboard controller's command byte: no translation of codes from
\* here on,
ProgramKeyboard ==
  /\ MainStep("program_keyboard", "read_mask")
  /\ UNCHANGED <<functions, mask, released, printed, hardware, cpu, events>>

\* then irq_clear_mask(1) reads
ReadMask ==
  /\ MainStep("read_mask", "write_mask")
  /\ mask' = imr
  /\ UNCHANGED <<functions, released, printed, hardware, cpu, events>>

\* Mutant: the bit is set instead of cleared.
Unmasked_Set(m, l) == m \cup {l}

Unmasked(m, l) == m \ {l}

\* and writes the mask.
WriteMask ==
  /\ MainStep("write_mask", "add_timer_handler")
  /\ imr' = Unmasked(mask, KeyboardLine)
  /\ UNCHANGED <<functions, mask, released, printed, irr, isr, iflag, obf, kbd,
                 cpu, events>>

\* add_interrupt_handler: one 8-byte store.
add_interrupt_handler(v, handler) == functions' = [functions EXCEPT ![v] = handler]

AddTimerHandler ==
  /\ MainStep("add_timer_handler", "add_keyboard_handler")
  /\ add_interrupt_handler(TimerVector, "timer_print")
  /\ UNCHANGED <<mask, released, printed, hardware, cpu, events>>

\* keyboard_init has filled the table of characters before this.
AddKeyboardHandler ==
  /\ MainStep("add_keyboard_handler", "loop")
  /\ add_interrupt_handler(KeyboardVector, "keyboard_interrupt")
  /\ UNCHANGED <<mask, released, printed, hardware, cpu, events>>

Main ==
  \/ setup_interrupt_handlers
  \/ SaveMasks
  \/ InitializationWords
  \/ RestoreMasks
  \/ init_exception_handlers
  \/ EnableInterrupts
  \/ ProgramKeyboard
  \/ ReadMask
  \/ WriteMask
  \/ AddTimerHandler
  \/ AddKeyboardHandler

-----------------------------------------------------------------------------
(* Devices and controllers *)

Tick ==
  /\ ticks < MaxTicks
  /\ ticks' = ticks + 1
  /\ irr' = irr \cup {TimerLine}
  /\ UNCHANGED <<pc, functions, mask, released, printed, isr, imr, iflag, obf,
                 kbd, cpu, pressed, keys, edgeLost, translated>>

\* A device raises its line; the history of the events does not count it.
OtherRequest(l) ==
  /\ irr' = irr \cup {l}
  /\ UNCHANGED <<pc, functions, mask, released, printed, isr, imr, iflag, obf,
                 kbd, cpu, events>>

\* The codes of a key: E0 first if it is an extended one.
Prefixed(k, codes) ==
  IF k \in ExtendedKeys THEN <<ExtendedCode>> \o codes ELSE codes

KeySends(codes) ==
  /\ keys < MaxKeys
  /\ keys' = keys + 1
  /\ kbd' = kbd \o codes
  /\ UNCHANGED <<pc, functions, mask, released, printed, irr, isr, imr, iflag,
                 obf, cpu, ticks, edgeLost, translated>>

PressKey(k) ==
  /\ KeySends(Prefixed(k, <<k>>))
  /\ pressed' = IF k \in SilentKeys THEN pressed ELSE Append(pressed, k)

ReleaseKey(k) ==
  /\ KeySends(Prefixed(k, <<KeyReleasedCode, k>>))
  /\ UNCHANGED pressed

TranslationMayBeOn ==
  pc \in {"setup_interrupt_handlers", "pic_init", "icw", "restore_masks",
          "init_exception_handlers", "sti", "program_keyboard"}

\* The controller's translation makes one byte of a release; 0xE0 it leaves.
InFirmwareCodes(bytes) ==
  LET rest == IF Head(bytes) = KeyReleasedCode THEN SubSeq(bytes, 3, Len(bytes))
              ELSE Tail(bytes)
  IN  <<FirmwareCode>> \o rest

\* The next byte enters the output buffer, and the line rises.  Until main has
\* programmed the controller the byte may be translated.
FillOutputBuffer ==
  /\ ~obf
  /\ kbd # << >>
  /\ obf' = TRUE
  /\ irr' = irr \cup {KeyboardLine}
  /\ \/ UNCHANGED <<kbd, translated>>
     \/ /\ TranslationMayBeOn /\ Head(kbd) # ExtendedCode
        /\ kbd' = InFirmwareCodes(kbd)
        /\ translated' = TRUE
  /\ UNCHANGED <<pc, functions, mask, released, printed, isr, imr, iflag, cpu,
                 pressed, ticks, keys, edgeLost>>

\* The slave's lines rank where it is cascaded.
Priority(l) == IF l \in SlaveLines THEN 16 * CascadeLine + l ELSE 16 * l

Pending == {l \in irr \ imr : l \in SlaveLines => CascadeLine \notin imr}

\* Mutant: the descriptors are trap gates.
FlagInGate_Trap == TRUE

\* create_interrupt makes every descriptor an interrupt gate, which turns
\* interrupts off on entry.
FlagInGate == FALSE

\* The controller raises the CPU's interrupt for its first pending line, and
\* the CPU enters the gate.
AcceptInterrupt(l) ==
  /\ iflag
  /\ vector = NoVector
  /\ ~halted
  /\ l \in Pending
  /\ \A m \in Pending : Priority(l) <= Priority(m)
  /\ \A m \in isr : Priority(l) < Priority(m)
  /\ irr' = irr \ {l}
  /\ isr' = isr \cup {l} \cup (IF l \in SlaveLines THEN {CascadeLine} ELSE {})
  /\ iflag' = FlagInGate
  /\ vector' = VectorOf(l)
  /\ line' = l
  /\ shim' = "call"
  /\ UNCHANGED <<pc, functions, mask, released, printed, imr, obf, kbd, halted,
                 faulting, events>>

\* An instruction of main faults once the kernel is up, and does so each time
\* it is executed.
RaiseFault(v) ==
  /\ MainRuns
  /\ pc = "loop"
  /\ faulting' = v
  /\ UNCHANGED <<pc, functions, mask, released, printed, hardware, vector, line,
                 shim, halted, events>>

EnterException ==
  /\ faulting # NoVector
  /\ vector = NoVector
  /\ ~halted
  /\ iflag' = FlagInGate
  /\ vector' = faulting
  /\ line' = NoLine
  /\ shim' = "call"
  /\ UNCHANGED <<pc, functions, mask, released, printed, irr, isr, imr, obf,
                 kbd, halted, faulting, events>>

-----------------------------------------------------------------------------
(* The shim and the handlers it calls *)

Calls(handler) == ~halted /\ shim = "call" /\ vector # NoVector
                    /\ functions[vector] = handler

\* Mutant: i_ok spins instead of stopping.
HaltingHandler_Spins ==
  /\ Calls("i_ok") \/ Calls("halting_handler")
  /\ UNCHANGED vars

\* i_ok, and the exception handlers but one, execute hlt: no interrupt can
\* wake the CPU again.
HaltingHandler ==
  /\ Calls("i_ok") \/ Calls("halting_handler")
  /\ halted' = TRUE
  /\ UNCHANGED <<pc, functions, mask, released, printed, hardware, vector, line,
                 shim, faulting, events>>

\* Handlers that return 0 and change nothing modelled here.
QuietHandler ==
  /\ Calls("i_ok_timer") \/ Calls("divide_by_zero_handler")
  /\ shim' = "eoi"
  /\ UNCHANGED <<pc, functions, mask, released, printed, hardware, vector, line,
                 halted, faulting, events>>

timer_print ==
  /\ Calls("timer_print")
  /\ printed' = Append(printed, TimerText)
  /\ shim' = "eoi"
  /\ UNCHANGED <<pc, functions, mask, released, hardware, vector, line, halted,
                 faulting, events>>

\* ascii_key[code], as text to print.  The table ends before 0xE0: what is
\* read there is whatever lies behind it.  Codes of the other set may lie there
\* too, or find another key's character.
TextOf(code) ==
  IF code \in {ExtendedCode, FirmwareCode} THEN {<< >>, <<Junk>>}
  ELSE IF code \in SilentKeys THEN {<< >>}
  ELSE {<<code>>}

\* Mutant: a release is forgotten before its key's code arrives.
AfterCode_Forgets(code) == FALSE

\* keyboard_key_released once code has been read.
AfterCode(code) == code = KeyReleasedCode

\* Reading the port takes the byte from the output buffer.
keyboard_interrupt ==
  /\ Calls("keyboard_interrupt")
  /\ obf
  /\ LET code == Head(kbd) IN
       /\ released' = AfterCode(code)
       /\ IF code = KeyReleasedCode \/ released
          THEN UNCHANGED printed
          ELSE \E text \in TextOf(code) : printed' = printed \o text
  /\ kbd' = Tail(kbd)
  /\ obf' = FALSE
  /\ shim' = "eoi"
  /\ UNCHANGED <<pc, functions, mask, irr, isr, imr, iflag, vector, line, halted,
                 faulting, events>>

\* A non-specific EOI ends the master's highest in-service line.
EndedBy(s) == {l \in s : l < 8 /\ \A m \in s : m < 8 => l <= m}

\* Mutant: nothing is acknowledged.
AfterEOI_None(s) == s

AfterEOI(s) == s \ EndedBy(s)

\* The shim writes an EOI to the master, for exceptions as well, and never to
\* the slave.
WriteEOI ==
  /\ vector # NoVector
  /\ shim = "eoi"
  /\ isr' = AfterEOI(isr)
  /\ shim' = "iret"
  /\ UNCHANGED <<pc, functions, mask, released, printed, irr, imr, iflag, obf,
                 kbd, vector, line, halted, faulting, events>>

\* iretq restores the flags: interrupts were on wherever one could strike.
ReturnFromInterrupt ==
  /\ vector # NoVector
  /\ shim = "iret"
  /\ iflag' = TRUE
  /\ vector' = NoVector
  /\ line' = NoLine
  /\ UNCHANGED <<pc, functions, mask, released, printed, irr, isr, imr, obf, kbd,
                 shim, halted, faulting, events>>

Shim ==
  \/ HaltingHandler
  \/ QuietHandler
  \/ timer_print
  \/ keyboard_interrupt
  \/ WriteEOI
  \/ ReturnFromInterrupt

Devices ==
  \/ Tick
  \/ \E l \in OtherLines : OtherRequest(l)
  \/ \E k \in Keys : PressKey(k)
  \/ \E k \in Keys : ReleaseKey(k)
  \/ \E v \in Faults : RaiseFault(v)

Next ==
  \/ Main
  \/ Shim
  \/ Devices
  \/ FillOutputBuffer
  \/ \E l \in Lines : AcceptInterrupt(l)
  \/ EnterException

Spec == Init /\ [][Next]_vars

\* The CPU executes the shim it is in, takes what is pending, and gets to
\* main's next instruction again and again between interrupts; the keyboard
\* delivers its bytes.  Key presses and ticks may never come.
FairSpec ==
  /\ Spec
  /\ WF_vars(Shim)
  /\ WF_vars(EnterException)
  /\ WF_vars(FillOutputBuffer)
  /\ SF_vars(Main)
  /\ SF_vars(\E l \in Lines : AcceptInterrupt(l))

-----------------------------------------------------------------------------
(* Properties *)

Handlers == {"none", "i_ok", "i_ok_timer", "timer_print", "keyboard_interrupt",
             "divide_by_zero_handler", "halting_handler"}

BootSteps == {"setup_interrupt_handlers", "pic_init", "icw", "restore_masks",
              "init_exception_handlers", "sti", "program_keyboard",
              "read_mask", "write_mask",
              "add_timer_handler", "add_keyboard_handler"}

(* Type invariant; interrupts are never on while a shim runs, so shims do   *)
(* not nest and one vector variable is enough.                              *)
TypeOK ==
  /\ pc \in BootSteps \cup {"loop"}
  /\ functions \in [Vectors -> Handlers]
  /\ irr \subseteq Lines /\ isr \subseteq Lines /\ imr \subseteq Lines
  /\ mask \subseteq Lines
  /\ iflag \in BOOLEAN
  /\ vector \in Vectors \cup {NoVector}
  /\ line \in Lines \cup {NoLine}
  /\ shim \in {"call", "eoi", "iret"}
  /\ halted \in BOOLEAN
  /\ faulting \in Faults \cup {NoVector}
  /\ kbd \in Seq(Bytes)
  /\ obf \in BOOLEAN
  /\ obf => kbd # << >>
  /\ released \in BOOLEAN
  /\ printed \in Seq(Keys \cup {TimerText, Junk})
  /\ pressed \in Seq(Keys)
  /\ ticks \in 0 .. MaxTicks /\ keys \in 0 .. MaxKeys
  /\ {edgeLost, translated} \subseteq BOOLEAN
  /\ vector # NoVector => ~iflag

(* Whenever main runs, no line is in service: each accepted interrupt is    *)
(* acknowledged exactly once, so no line is left blocked, and the EOI the   *)
(* shim also sends for an exception acknowledges nothing by mistake.        *)
InServiceOnlyInShim ==
  /\ vector = NoVector => isr = {}
  /\ vector # NoVector /\ line \notin SlaveLines /\ shim # "iret" =>
       isr = {line} \ {NoLine}

(* What can stop the machine: an exception, a device the kernel does not    *)
(* know, or a key pressed while interrupts are already on and the           *)
(* keyboard's handler is not installed yet.  The timer never does.          *)
HaltHasACause ==
  halted =>
    \/ line = NoLine
    \/ line \in OtherLines
    \/ line = KeyboardLine /\ pc \in {"program_keyboard", "read_mask",
                                      "write_mask",
                                      "add_timer_handler",
                                      "add_keyboard_handler"}

\* What was printed of the keys: text without what is none of theirs.
KeysOf(text) ==
  LET keysOf[n \in 0 .. Len(text)] ==
        IF n = 0 THEN << >>
        ELSE IF text[n] \in {TimerText, Junk} THEN keysOf[n - 1]
        ELSE Append(keysOf[n - 1], text[n])
  IN  keysOf[Len(text)]

Typed == KeysOf(printed)

(* Every key with a character prints that character once, in order, when it *)
(* is pressed and not when it is released, however timer ticks, silent keys *)
(* and the two- and three-byte codes of extended keys fall between the      *)
(* bytes; unless a byte came before the controller was programmed.  What    *)
(* else a code may print, OnlyKeysPrinted says.                             *)
KeysPrintedInOrder ==
  ~translated =>
    /\ IsPrefix(Typed, pressed)
    /\ kbd = << >> => Typed = pressed

(* "//key released": the branch for releases prints nothing.  Nor does a    *)
(* code that keyboard_init gives no character: all that is printed are the  *)
(* timer's text and characters of keys.                                     *)
OnlyKeysPrinted ==
  ~translated =>
    \A i \in 1 .. Len(printed) : printed[i] \in Keys \cup {TimerText}

(* kernel_main reaches its loop unless an early interrupt stops it.         *)
BootFinishes == <>(pc = "loop" \/ halted)

(* No keyboard interrupt is lost once the kernel is up: unless pic_init     *)
(* dropped one, every byte is read, or the machine has stopped.             *)
KeysAreRead ==
  (pc = "loop" /\ kbd # << >> /\ ~edgeLost) ~> (kbd = << >> \/ halted)
=============================================================================
