-------------------------- MODULE InterruptsProofs -------------------------
(***************************************************************************)
(* Proofs about Interrupts, for every set of keys, devices, masks and      *)
(* faults: types, which line is in service when, what can stop the         *)
(* machine, and what is printed of the keys.                               *)
(*                                                                         *)
(* The argument: a gate turns interrupts off, so at most one shim runs;    *)
(* the line it serves enters the controllers' in-service set with it and   *)
(* leaves by the shim's one acknowledgement.  A line of the slave, whose   *)
(* own acknowledgement the shim leaves out, never gets as far, since its   *)
(* vector still has i_ok.  The bytes not yet read determine what is still  *)
(* to be printed of the keys pressed.                                      *)
(***************************************************************************)
EXTENDS Interrupts, WellFoundedInduction, SequenceTheorems, TLAPS

-----------------------------------------------------------------------------
(* Types *)

(* Initially the types are right.                                           *)
LEMMA TypeInit == Init => TypeOK
<1> SUFFICES ASSUME Init PROVE TypeOK
  OBVIOUS
<1>1. /\ kbd \in Seq(Bytes)
      /\ printed \in Seq(Keys \cup {TimerText, Junk})
      /\ pressed \in Seq(Keys)
  BY DEF Init
<1>2. functions \in [Vectors -> Handlers]
  BY DEF Init, Handlers
<1>3. imr \subseteq Lines
  BY MasksAssumption DEF Init
<1>4. ticks \in 0 .. MaxTicks /\ keys \in 0 .. MaxKeys
  BY BoundsAssumption DEF Init
<1> QED
  BY <1>1, <1>2, <1>3, <1>4 DEF Init, TypeOK, BootSteps

(* A handler that is installed is one of those the code has.                *)
LEMMA TypeMain == TypeOK /\ Main => TypeOK'
<1> SUFFICES ASSUME TypeOK, Main PROVE TypeOK'
  OBVIOUS
<1> USE DEF TypeOK, BootSteps, MainStep, MainRuns, hardware, cpu, events
<1>1. CASE setup_interrupt_handlers
  BY <1>1 DEF setup_interrupt_handlers, Handlers
<1>2. CASE SaveMasks
  BY <1>2 DEF SaveMasks
<1>3. CASE InitializationWords
  BY <1>3 DEF InitializationWords
<1>4. CASE RestoreMasks
  BY <1>4 DEF RestoreMasks
<1>5. CASE init_exception_handlers
  BY <1>5 DEF init_exception_handlers, Handlers, ExceptionHandler
<1>6. CASE EnableInterrupts
  BY <1>6 DEF EnableInterrupts
<1>7. CASE ReadMask \/ ProgramKeyboard
  BY <1>7 DEF ReadMask, ProgramKeyboard
<1>8. CASE WriteMask
  BY <1>8 DEF WriteMask, Unmasked
<1>9. CASE AddTimerHandler
  BY <1>9 DEF AddTimerHandler, add_interrupt_handler, Handlers
<1>10. CASE AddKeyboardHandler
  BY <1>10 DEF AddKeyboardHandler, add_interrupt_handler, Handlers
<1> QED
  BY <1>1, <1>2, <1>3, <1>4, <1>5, <1>6, <1>7, <1>8, <1>9, <1>10 DEF Main

(* Requests are requests of lines; what the keyboard sends are codes.       *)
LEMMA TypeDevices ==
  ASSUME TypeOK, Devices \/ FillOutputBuffer PROVE TypeOK'
<1> USE DEF TypeOK, hardware, cpu, events
<1>1. CASE Tick
  BY <1>1, BoundsAssumption DEF Tick, Lines
<1>2. ASSUME NEW l \in OtherLines, OtherRequest(l) PROVE TypeOK'
  BY <1>2 DEF OtherRequest, Lines
<1>3. ASSUME NEW k \in Keys, NEW codes \in Seq(Bytes),
             KeySends(Prefixed(k, codes)), pressed' \in Seq(Keys)
      PROVE  TypeOK'
  <2>1. Prefixed(k, codes) \in Seq(Bytes)
    <3>1. <<ExtendedCode>> \in Seq(Bytes)
      BY DEF Bytes
    <3>2. <<ExtendedCode>> \o codes \in Seq(Bytes)
      BY <3>1
    <3> QED
      BY <3>2 DEF Prefixed
  <2>2. kbd' \in Seq(Bytes) /\ keys' \in 0 .. MaxKeys
    BY <1>3, <2>1, BoundsAssumption DEF KeySends
  <2> QED
    BY <1>3, <2>2 DEF KeySends
<1>4. ASSUME NEW k \in Keys, PressKey(k) PROVE TypeOK'
  <2>1. <<k>> \in Seq(Bytes)
    BY DEF Bytes
  <2>2. pressed' \in Seq(Keys)
    BY <1>4 DEF PressKey
  <2> QED
    BY <1>3, <1>4, <2>1, <2>2 DEF PressKey
<1>5. ASSUME NEW k \in Keys, ReleaseKey(k) PROVE TypeOK'
  <2>1. <<KeyReleasedCode, k>> \in Seq(Bytes)
    BY DEF Bytes
  <2> QED
    BY <1>3, <1>5, <2>1 DEF ReleaseKey
<1>6. ASSUME NEW v \in Faults, RaiseFault(v) PROVE TypeOK'
  BY <1>6 DEF RaiseFault
<1>7. CASE FillOutputBuffer
  <2>1. kbd' \in Seq(Bytes) /\ kbd' # << >> /\ translated' \in BOOLEAN
    <3>1. CASE UNCHANGED <<kbd, translated>>
      BY <1>7, <3>1 DEF FillOutputBuffer
    <3>2. CASE kbd' = InFirmwareCodes(kbd) /\ translated' = TRUE
      <4>1. /\ kbd \in Seq(Bytes) /\ kbd # << >>
            /\ SubSeq(kbd, 3, Len(kbd)) \in Seq(Bytes) /\ Tail(kbd) \in Seq(Bytes)
        BY <1>7 DEF FillOutputBuffer
      <4>2. PICK rest \in Seq(Bytes) : kbd' = <<FirmwareCode>> \o rest
        BY <3>2, <4>1 DEF InFirmwareCodes
      <4>3. <<FirmwareCode>> \in Seq(Bytes)
        BY DEF Bytes
      <4>4. kbd' \in Seq(Bytes) /\ Len(kbd') = 1 + Len(rest) /\ Len(rest) \in Nat
        BY <4>2, <4>3
      <4> QED
        BY <3>2, <4>4
    <3> QED
      BY <1>7, <3>1, <3>2 DEF FillOutputBuffer
  <2> QED
    BY <1>7, <2>1 DEF FillOutputBuffer, Lines
<1> QED
  BY <1>1, <1>2, <1>4, <1>5, <1>6, <1>7 DEF Devices

(* A gate is entered with interrupts off, at a vector there is.             *)
LEMMA TypeEnter ==
  ASSUME TypeOK, (\E l \in Lines : AcceptInterrupt(l)) \/ EnterException
  PROVE  TypeOK'
<1> USE DEF TypeOK, Vectors, FlagInGate, hardware, cpu, events
<1>1. ASSUME NEW l \in Lines, AcceptInterrupt(l) PROVE TypeOK'
  BY <1>1 DEF AcceptInterrupt, VectorOf, Lines
<1>2. CASE EnterException
  BY <1>2, FaultsAssumption DEF EnterException
<1> QED
  BY <1>1, <1>2

(* What a handler prints is text.                                           *)
LEMMA TypeShim ==
  ASSUME TypeOK, Shim PROVE TypeOK'
<1> USE DEF TypeOK, hardware, cpu, events
<1>1. CASE HaltingHandler
  BY <1>1 DEF HaltingHandler
<1>2. CASE QuietHandler
  BY <1>2 DEF QuietHandler
<1>3. CASE timer_print
  BY <1>3 DEF timer_print
<1>4. CASE keyboard_interrupt
  <2>1. Head(kbd) \in Bytes /\ Tail(kbd) \in Seq(Bytes)
    BY <1>4 DEF keyboard_interrupt
  <2>2. CASE printed' = printed
    BY <1>4, <2>1, <2>2 DEF keyboard_interrupt, AfterCode
  <2>3. ASSUME NEW text \in TextOf(Head(kbd)), Head(kbd) # KeyReleasedCode,
               printed' = printed \o text
        PROVE  TypeOK'
    <3>1. \/ text = <<>> \/ text = <<Junk>>
          \/ Head(kbd) \in Keys /\ text = <<Head(kbd)>>
      BY <2>1, <2>3, Zenon DEF TextOf, Bytes
    <3>2. text \in Seq(Keys \cup {TimerText, Junk})
      <4>1. \A c \in Keys \cup {TimerText, Junk} :
              <<c>> \in Seq(Keys \cup {TimerText, Junk})
        OBVIOUS
      <4>2. <<>> \in Seq(Keys \cup {TimerText, Junk})
        OBVIOUS
      <4>3. CASE text = <<>> \/ text = <<Junk>>
        BY <4>1, <4>2, <4>3, Zenon
      <4>4. CASE Head(kbd) \in Keys /\ text = <<Head(kbd)>>
        BY <4>1, <4>4, Zenon
      <4> QED
        BY <3>1, <4>3, <4>4
    <3>3. printed' \in Seq(Keys \cup {TimerText, Junk})
      BY <2>3, <3>2
    <3> QED
      BY <1>4, <2>1, <3>3 DEF keyboard_interrupt, AfterCode
  <2> QED
    BY <1>4, <2>2, <2>3 DEF keyboard_interrupt
<1>5. CASE WriteEOI
  BY <1>5 DEF WriteEOI, AfterEOI
<1>6. CASE ReturnFromInterrupt
  BY <1>6 DEF ReturnFromInterrupt
<1> QED
  BY <1>1, <1>2, <1>3, <1>4, <1>5, <1>6 DEF Shim

(* The variables keep their types, and shims run with interrupts off.       *)
THEOREM TypeCorrect == Spec => []TypeOK
<1>1. TypeOK /\ [Next]_vars => TypeOK'
  <2>1. TypeOK /\ UNCHANGED vars => TypeOK'
    BY DEF TypeOK, vars, hardware, cpu, events
  <2> QED
    BY <2>1, TypeMain, TypeDevices, TypeEnter, TypeShim DEF Next
<1> QED
  BY <1>1, TypeInit, PTL DEF Spec

-----------------------------------------------------------------------------
(* The strengthening *)

AfterSti == {"program_keyboard", "read_mask", "write_mask",
             "add_timer_handler", "add_keyboard_handler", "loop"}

(* Interrupts are on, and shims run, only once pic_enable_interrupts began. *)
InterruptsAfterSti ==
  /\ iflag \/ vector # NoVector => pc \in AfterSti
  /\ faulting # NoVector => pc = "loop"

(* Which handlers the vectors of lines and of exceptions may have.          *)
HandlersInPlace ==
  /\ functions[TimerVector] \in {"none", "i_ok_timer", "timer_print"}
  /\ functions[KeyboardVector] \in {"none", "i_ok", "keyboard_interrupt"}
  /\ pc = "loop" => functions[KeyboardVector] = "keyboard_interrupt"
  /\ \A l \in OtherLines : functions[VectorOf(l)] \in {"none", "i_ok"}
  /\ \A v \in Faults : functions[v] \notin {"timer_print", "keyboard_interrupt"}

(* A shim that serves a line has its vector; the cascade never requests.    *)
ShimServesItsLine ==
  /\ CascadeLine \notin irr
  /\ line # CascadeLine
  /\ vector = NoVector => line = NoLine
  /\ vector # NoVector /\ line = NoLine => vector \in Faults
  /\ line # NoLine => vector = VectorOf(line)

(* The line in service, between the controllers' acceptance and the shim's  *)
(* acknowledgement; shims of slave lines never reach theirs.                *)
InService ==
  /\ vector = NoVector \/ line = NoLine => isr = {}
  /\ vector # NoVector /\ line \in Lines \ SlaveLines =>
       isr = IF shim = "iret" THEN {} ELSE {line}
  /\ vector # NoVector /\ line \in SlaveLines => shim = "call"

(* The keyboard's handler finds a byte whenever it is called, and no        *)
(* request for a byte outlives it.                                          *)
ByteForRequest ==
  /\ KeyboardLine \in irr => obf
  /\ line = KeyboardLine /\ shim = "call" => obf /\ KeyboardLine \notin irr

HaltedInShim == halted => vector # NoVector /\ shim = "call"

ServiceInvariant ==
  /\ InterruptsAfterSti
  /\ HandlersInPlace
  /\ ShimServesItsLine
  /\ InService
  /\ ByteForRequest
  /\ HaltedInShim
  /\ HaltHasACause

(* The vectors of the lines lie behind those of the exceptions, each line's *)
(* at its own place.                                                        *)
LEMMA VectorsOfLines ==
  /\ {TimerVector, KeyboardVector} \subseteq Vectors
  /\ TimerVector = VectorOf(TimerLine) /\ KeyboardVector = VectorOf(KeyboardLine)
  /\ TimerVector # KeyboardVector /\ NoVector \notin Vectors
  /\ {TimerVector, KeyboardVector} \cap (0 .. 31) = {}
  /\ Faults \subseteq Vectors /\ Faults \subseteq 0 .. 31
  /\ \A l \in OtherLines :
       /\ VectorOf(l) \in Vectors
       /\ VectorOf(l) \notin (0 .. 31) \cup {TimerVector, KeyboardVector}
  /\ \A l \in Lines \ {TimerLine, KeyboardLine, CascadeLine} : l \in OtherLines
  /\ SlaveLines \subseteq OtherLines
  /\ NoLine \notin Lines
  /\ ExceptionVectors \subseteq 0 .. 31
BY LinesAssumption, FaultsAssumption
   DEF TimerVector, KeyboardVector, Vectors, VectorOf, Lines, TimerLine,
       KeyboardLine, CascadeLine, NoVector, NoLine, SlaveLines,
       ExceptionVectors

(* Nothing runs yet.                                                        *)
LEMMA ServiceInit == Init => ServiceInvariant
<1> SUFFICES ASSUME Init PROVE ServiceInvariant
  OBVIOUS
<1>1. \A v \in Vectors : functions[v] = "none"
  BY DEF Init
<1>2. /\ {TimerVector, KeyboardVector} \subseteq Vectors
      /\ Faults \subseteq Vectors
      /\ \A l \in OtherLines : VectorOf(l) \in Vectors
  BY VectorsOfLines
<1>3. HandlersInPlace
  BY <1>1, <1>2 DEF HandlersInPlace, Init
<1> QED
  BY <1>3 DEF Init, ServiceInvariant, InterruptsAfterSti, ShimServesItsLine,
              InService, ByteForRequest, HaltedInShim, HaltHasACause, NoLine,
              KeyboardLine, CascadeLine

(* kernel_main's steps happen between shims; interrupts are on from         *)
(* EnableInterrupts on.                                                     *)
LEMMA ServiceMain ==
  ASSUME TypeOK, ServiceInvariant, Main PROVE ServiceInvariant'
<1> USE DEF MainStep, MainRuns, hardware, cpu, events, ServiceInvariant
<1>1. vector = NoVector /\ isr = {} /\ ~halted /\ line = NoLine
  BY DEF Main, setup_interrupt_handlers, SaveMasks, InitializationWords,
         RestoreMasks, init_exception_handlers, EnableInterrupts, ProgramKeyboard, ReadMask,
         WriteMask, AddTimerHandler, AddKeyboardHandler, InService,
         ShimServesItsLine
<1>2. /\ UNCHANGED <<cpu, obf>>
      /\ irr' \in {irr, {}} /\ isr' = {}
      /\ pc # "loop" /\ pc' # pc
  BY <1>1 DEF Main, setup_interrupt_handlers, SaveMasks, InitializationWords,
         RestoreMasks, init_exception_handlers, EnableInterrupts, ProgramKeyboard, ReadMask,
         WriteMask, AddTimerHandler, AddKeyboardHandler
<1>3. InterruptsAfterSti'
  BY <1>1, <1>2
     DEF InterruptsAfterSti, AfterSti, Main, setup_interrupt_handlers,
         SaveMasks, InitializationWords, RestoreMasks, init_exception_handlers,
         EnableInterrupts, ProgramKeyboard, ReadMask, WriteMask, AddTimerHandler,
         AddKeyboardHandler
<1>4. HandlersInPlace'
  <2>1. CASE functions' = functions /\ pc' # "loop"
    BY <2>1 DEF HandlersInPlace
  <2>2. CASE setup_interrupt_handlers
    BY <2>2, VectorsOfLines DEF setup_interrupt_handlers, HandlersInPlace
  <2>3. CASE init_exception_handlers
    <3>1. ASSUME NEW v \in Vectors
          PROVE  functions'[v] \in {functions[v], "divide_by_zero_handler",
                                   "halting_handler"}
      BY <2>3 DEF init_exception_handlers, ExceptionHandler
    <3>2. ASSUME NEW v \in Vectors, v \notin 0 .. 31
          PROVE  functions'[v] = functions[v]
      BY <2>3, <3>2, VectorsOfLines DEF init_exception_handlers
    <3>3. pc' # "loop"
      BY <2>3 DEF init_exception_handlers
    <3>4. \A v \in Faults : functions'[v] \notin {"timer_print", "keyboard_interrupt"}
      BY <3>1, VectorsOfLines DEF HandlersInPlace
    <3>5. /\ functions'[TimerVector] = functions[TimerVector]
          /\ functions'[KeyboardVector] = functions[KeyboardVector]
          /\ \A l \in OtherLines : functions'[VectorOf(l)] = functions[VectorOf(l)]
      BY <3>2, VectorsOfLines
    <3> QED
      BY <3>3, <3>4, <3>5, VectorsOfLines DEF HandlersInPlace
  <2>4. CASE AddTimerHandler
    BY <2>4, VectorsOfLines
       DEF AddTimerHandler, add_interrupt_handler, HandlersInPlace, TypeOK
  <2>5. CASE AddKeyboardHandler
    BY <2>5, VectorsOfLines
       DEF AddKeyboardHandler, add_interrupt_handler, HandlersInPlace, TypeOK
  <2> QED
    BY <2>1, <2>2, <2>3, <2>4, <2>5
       DEF Main, SaveMasks, InitializationWords, RestoreMasks,
           EnableInterrupts, ProgramKeyboard, ReadMask, WriteMask
<1>5. ShimServesItsLine'
  BY <1>1, <1>2 DEF ShimServesItsLine
<1>6. InService' /\ HaltedInShim' /\ HaltHasACause'
  BY <1>1, <1>2 DEF InService, HaltedInShim, HaltHasACause
<1>7. ByteForRequest'
  BY <1>1, <1>2 DEF ByteForRequest, NoLine, KeyboardLine
<1> QED
  BY <1>3, <1>4, <1>5, <1>6, <1>7

(* Devices raise lines and nothing else; a byte comes with its request.     *)
LEMMA ServiceDevices ==
  ASSUME TypeOK, ServiceInvariant, Devices \/ FillOutputBuffer
  PROVE  ServiceInvariant'
<1> USE DEF hardware, cpu, events, ServiceInvariant
<1>0. \A l \in OtherLines : l # CascadeLine /\ l # KeyboardLine
  BY LinesAssumption DEF CascadeLine, KeyboardLine
<1>1. /\ UNCHANGED <<pc, functions, isr, iflag, vector, line, shim, halted>>
      /\ faulting' # faulting => pc = "loop"
      /\ CascadeLine \in irr' => CascadeLine \in irr
      /\ \/ obf' = obf /\ (KeyboardLine \in irr' => KeyboardLine \in irr)
         \/ obf' /\ ~obf
  <2>1. CASE Tick
    BY <2>1 DEF Tick, CascadeLine, TimerLine, KeyboardLine
  <2>2. ASSUME NEW l \in OtherLines, OtherRequest(l)
        PROVE  /\ UNCHANGED <<pc, functions, isr, iflag, vector, line, shim,
                              halted, faulting, obf>>
               /\ irr' = irr \cup {l}
    BY <2>2 DEF OtherRequest
  <2>3. ASSUME NEW k \in Keys, PressKey(k) \/ ReleaseKey(k)
        PROVE  UNCHANGED <<pc, functions, irr, isr, iflag, vector, line, shim,
                           halted, faulting, obf>>
    BY <2>3 DEF PressKey, ReleaseKey, KeySends
  <2>4. ASSUME NEW v \in Faults, RaiseFault(v)
        PROVE  /\ UNCHANGED <<pc, functions, irr, isr, iflag, vector, line, shim,
                              halted, obf>>
               /\ pc = "loop"
    BY <2>4 DEF RaiseFault, MainRuns
  <2>5. CASE FillOutputBuffer
    <3>1. /\ UNCHANGED <<pc, functions, isr, iflag>>
          /\ UNCHANGED <<vector, line, shim, halted, faulting>>
      BY <2>5 DEF FillOutputBuffer
    <3>2. obf' /\ ~obf
      BY <2>5 DEF FillOutputBuffer
    <3>3. CascadeLine \in irr' => CascadeLine \in irr
      BY <2>5 DEF FillOutputBuffer, CascadeLine, KeyboardLine
    <3> QED
      BY <3>1, <3>2, <3>3
  <2> QED
    BY <1>0, <2>1, <2>2, <2>3, <2>4, <2>5 DEF Devices
<1>2. CascadeLine \notin irr' /\ (faulting' # NoVector => pc = "loop")
  BY <1>1 DEF ShimServesItsLine, InterruptsAfterSti
<1>3. ByteForRequest'
  BY <1>1 DEF ByteForRequest
<1>4. InterruptsAfterSti' /\ HandlersInPlace' /\ ShimServesItsLine'
  BY <1>1, <1>2 DEF InterruptsAfterSti, HandlersInPlace, ShimServesItsLine
<1>5. InService' /\ HaltedInShim' /\ HaltHasACause'
  BY <1>1 DEF InService, HaltedInShim, HaltHasACause
<1> QED
  BY <1>3, <1>4, <1>5

(* A line enters service together with its shim.                            *)
LEMMA ServiceAccept ==
  ASSUME TypeOK, ServiceInvariant, NEW l \in Lines, AcceptInterrupt(l)
  PROVE  ServiceInvariant'
<1> USE DEF ServiceInvariant
<1>1. /\ vector = NoVector /\ isr = {} /\ ~halted /\ l \in irr /\ l # CascadeLine
      /\ pc \in AfterSti
  BY DEF AcceptInterrupt, InService, Pending, ShimServesItsLine,
         InterruptsAfterSti
<1>2. /\ UNCHANGED <<pc, functions, faulting, halted, obf>>
      /\ irr' = irr \ {l}
      /\ isr' = {l} \cup (IF l \in SlaveLines THEN {CascadeLine} ELSE {})
      /\ vector' = VectorOf(l) /\ line' = l /\ shim' = "call"
  BY <1>1 DEF AcceptInterrupt
<1>3. VectorOf(l) # NoVector /\ l # NoLine
  BY VectorsOfLines DEF VectorOf, NoVector, Lines, TimerLine, KeyboardLine,
                        CascadeLine, NoLine
<1>4. InterruptsAfterSti' /\ HandlersInPlace' /\ ShimServesItsLine'
  BY <1>1, <1>2, <1>3
     DEF InterruptsAfterSti, HandlersInPlace, ShimServesItsLine
<1>5. InService' /\ HaltedInShim' /\ HaltHasACause'
  BY <1>1, <1>2, <1>3 DEF InService, HaltedInShim, HaltHasACause
<1>6. ByteForRequest'
  BY <1>1, <1>2 DEF ByteForRequest
<1> QED
  BY <1>4, <1>5, <1>6

(* An exception's shim serves no line.                                      *)
LEMMA ServiceException ==
  ASSUME TypeOK, ServiceInvariant, EnterException PROVE ServiceInvariant'
<1> USE DEF ServiceInvariant
<1>1. /\ vector = NoVector /\ isr = {} /\ ~halted /\ faulting # NoVector
      /\ pc = "loop" /\ faulting \in Faults
  BY DEF EnterException, InService, InterruptsAfterSti, TypeOK
<1>2. /\ UNCHANGED <<pc, functions, faulting, halted, obf, irr, isr>>
      /\ vector' = faulting /\ line' = NoLine /\ shim' = "call"
  BY DEF EnterException
<1>3. NoLine # KeyboardLine /\ NoLine # CascadeLine /\ NoLine \notin Lines
  BY VectorsOfLines DEF NoLine, KeyboardLine, CascadeLine
<1>4. InterruptsAfterSti' /\ HandlersInPlace' /\ ShimServesItsLine'
  BY <1>1, <1>2, <1>3
     DEF InterruptsAfterSti, HandlersInPlace, ShimServesItsLine, AfterSti
<1>5. InService' /\ HaltedInShim' /\ HaltHasACause' /\ ByteForRequest'
  BY <1>1, <1>2, <1>3, VectorsOfLines
     DEF InService, HaltedInShim, HaltHasACause, ByteForRequest, SlaveLines
<1> QED
  BY <1>4, <1>5

(* A shim only stops in a handler that halts, and acknowledges the one line *)
(* it serves.                                                               *)
LEMMA ServiceShim ==
  ASSUME TypeOK, ServiceInvariant, Shim PROVE ServiceInvariant'
<1> USE DEF hardware, cpu, events, ServiceInvariant
<1>1. /\ UNCHANGED <<pc, functions, irr, faulting>>
      /\ iflag' => vector # NoVector
      /\ vector' # NoVector => UNCHANGED <<vector, line>>
      /\ vector # NoVector
  BY VectorsOfLines
     DEF Shim, HaltingHandler, QuietHandler, timer_print, keyboard_interrupt,
         WriteEOI, ReturnFromInterrupt, Calls, TypeOK
<1>2. line \in SlaveLines /\ shim = "call" => functions[vector] \in {"none", "i_ok"}
  BY VectorsOfLines DEF HandlersInPlace, ShimServesItsLine, SlaveLines
<1>3. InterruptsAfterSti' /\ HandlersInPlace'
  BY <1>1 DEF InterruptsAfterSti, HandlersInPlace
<1>4. CASE HaltingHandler
  <2>1. /\ UNCHANGED <<irr, isr, obf, vector, line, shim>>
        /\ shim = "call" /\ functions[vector] \in {"i_ok", "halting_handler"}
    BY <1>4 DEF HaltingHandler, Calls
  <2>2. line = KeyboardLine => pc \in AfterSti \ {"loop"}
    BY <1>1, <2>1, VectorsOfLines
       DEF HandlersInPlace, ShimServesItsLine, InterruptsAfterSti, NoLine,
           KeyboardLine
  <2>3. line # TimerLine
    BY <2>1, VectorsOfLines
       DEF HandlersInPlace, ShimServesItsLine, NoLine, TimerLine
  <2>4. line \in OtherLines \cup {KeyboardLine, NoLine}
    BY <2>3, VectorsOfLines DEF TypeOK, ShimServesItsLine
  <2>5. HaltHasACause'
    BY <1>1, <2>1, <2>2, <2>4 DEF HaltHasACause, AfterSti
  <2> QED
    BY <1>1, <1>3, <2>1, <2>5
       DEF ShimServesItsLine, InService, ByteForRequest, HaltedInShim
<1>5. ASSUME shim = "call", shim' = "eoi", line \notin SlaveLines, ~halted,
             UNCHANGED <<isr, vector, line, halted>>,
             line = KeyboardLine \/ obf' = obf
      PROVE  ServiceInvariant'
  <2>1. ByteForRequest'
    BY <1>1, <1>5 DEF ByteForRequest
  <2>2. ShimServesItsLine' /\ InService'
    BY <1>1, <1>5 DEF ShimServesItsLine, InService
  <2> QED
    BY <1>3, <1>5, <2>1, <2>2 DEF HaltedInShim, HaltHasACause
<1>6. CASE QuietHandler \/ timer_print
  <2>1. /\ shim = "call" /\ shim' = "eoi" /\ ~halted
        /\ functions[vector] \notin {"none", "i_ok"}
        /\ UNCHANGED <<isr, vector, line, halted, obf>>
    BY <1>6 DEF QuietHandler, timer_print, Calls
  <2> QED
    BY <1>2, <1>5, <2>1
<1>7. CASE keyboard_interrupt
  <2>1. /\ shim = "call" /\ shim' = "eoi" /\ ~halted
        /\ functions[vector] = "keyboard_interrupt"
        /\ UNCHANGED <<isr, vector, line, halted>>
    BY <1>7 DEF keyboard_interrupt, Calls
  <2>2. line = KeyboardLine
    <3>1. line # NoLine
      BY <1>1, <2>1 DEF HandlersInPlace, ShimServesItsLine
    <3>2. line # TimerLine
      BY <2>1, VectorsOfLines
         DEF HandlersInPlace, ShimServesItsLine, NoLine, TimerLine
    <3>3. line \notin OtherLines
      BY <2>1, <3>1 DEF HandlersInPlace, ShimServesItsLine
    <3> QED
      BY <3>1, <3>2, <3>3, VectorsOfLines DEF TypeOK, ShimServesItsLine
  <2> QED
    BY <1>2, <1>5, <2>1, <2>2
<1>8. CASE WriteEOI
  <2>1. /\ shim = "eoi" /\ shim' = "iret" /\ isr' = AfterEOI(isr)
        /\ UNCHANGED <<obf, vector, line, halted>>
    BY <1>8 DEF WriteEOI
  <2>2. ~halted /\ line \notin SlaveLines
    BY <1>1, <2>1 DEF HaltedInShim, InService
  <2>3. isr' = {}
    <3>1. CASE isr = {}
      BY <2>1, <3>1 DEF AfterEOI
    <3>2. CASE line \in Lines \ SlaveLines /\ isr = {line}
      <4>1. line < 8 /\ line <= line
        BY <3>2, LinesAssumption
           DEF Lines, SlaveLines, TimerLine, KeyboardLine, CascadeLine
      <4>2. EndedBy(isr) = {line}
        BY <3>2, <4>1 DEF EndedBy
      <4> QED
        BY <2>1, <3>2, <4>2 DEF AfterEOI
    <3> QED
      BY <1>1, <2>1, <2>2, <3>1, <3>2 DEF InService, TypeOK
  <2>4. ByteForRequest' /\ ShimServesItsLine' /\ InService'
    BY <1>1, <2>1, <2>2, <2>3 DEF ByteForRequest, ShimServesItsLine, InService
  <2> QED
    BY <1>3, <2>1, <2>2, <2>4 DEF HaltedInShim, HaltHasACause
<1>9. CASE ReturnFromInterrupt
  <2>1. /\ shim = "iret" /\ vector' = NoVector /\ line' = NoLine
        /\ UNCHANGED <<obf, isr, halted>>
    BY <1>9 DEF ReturnFromInterrupt
  <2>2. ~halted /\ isr = {} /\ NoLine # KeyboardLine /\ NoLine # CascadeLine
    BY <1>1, <2>1 DEF HaltedInShim, InService, TypeOK, NoLine, KeyboardLine,
                      CascadeLine
  <2>3. ByteForRequest' /\ ShimServesItsLine' /\ InService'
    BY <1>1, <2>1, <2>2, VectorsOfLines
       DEF ByteForRequest, ShimServesItsLine, InService
  <2> QED
    BY <1>3, <2>1, <2>2, <2>3 DEF HaltedInShim, HaltHasACause
<1> QED
  BY <1>4, <1>6, <1>7, <1>8, <1>9 DEF Shim

(* Nothing changes in a step that changes nothing.                          *)
LEMMA ServiceStutter ==
  ASSUME ServiceInvariant, UNCHANGED vars PROVE ServiceInvariant'
BY DEF ServiceInvariant, InterruptsAfterSti, HandlersInPlace, ShimServesItsLine,
       InService, ByteForRequest, HaltedInShim, HaltHasACause, vars, hardware,
       cpu, events

(* One shim at a time, for the line that is in service, from sti on.        *)
THEOREM ServiceCorrect == Spec => []ServiceInvariant
<1>1. TypeOK /\ ServiceInvariant /\ [Next]_vars => ServiceInvariant'
  BY ServiceMain, ServiceShim, ServiceDevices, ServiceAccept, ServiceException,
     ServiceStutter DEF Next
<1> QED
  BY <1>1, ServiceInit, TypeCorrect, PTL DEF Spec

(* No line is in service while main runs, and while a shim runs before its  *)
(* return, the line it serves is the only one.                              *)
THEOREM InServiceOnlyInShimCorrect == Spec => []InServiceOnlyInShim
<1>1. TypeOK /\ ServiceInvariant => InServiceOnlyInShim
  BY VectorsOfLines
     DEF ServiceInvariant, InService, InServiceOnlyInShim, TypeOK
<1> QED
  BY <1>1, ServiceCorrect, TypeCorrect, PTL

(* What stops the machine is an exception, a device without a handler, or a *)
(* key pressed before the keyboard's handler is installed.                  *)
THEOREM HaltHasACauseCorrect == Spec => []HaltHasACause
<1>1. ServiceInvariant => HaltHasACause
  BY DEF ServiceInvariant
<1> QED
  BY <1>1, ServiceCorrect, PTL

-----------------------------------------------------------------------------
(* The keys of a text *)

(* A set of numbers has a least one.                                        *)
LEMMA LeastNumber ==
  ASSUME NEW T, T \subseteq Nat, T # {}
  PROVE  \E x \in T : \A y \in T : x <= y
<1> DEFINE R == {ss \in Nat \X Nat : ss[1] < ss[2]}
<1>1. R = OpToRel(<, Nat)
  BY DEF OpToRel
<1>2. IsWellFoundedOn(R, Nat)
  BY <1>1, NatLessThanWellFounded
<1>3. PICK x \in T : \A y \in T : <<y, x>> \notin R
  <2> HIDE DEF R
  <2> QED
    BY <1>2, WFMin
<1>4. ASSUME NEW y \in T PROVE x <= y
  <2>1. x \in Nat /\ y \in Nat
    OBVIOUS
  <2>2. <<y, x>> \in Nat \X Nat
    BY <2>1
  <2>3. y < x => <<y, x>> \in R
    BY <2>2, Zenon
  <2> QED
    BY <1>3, <2>1, <2>3
<1> QED
  BY <1>4

\* What KeysOf recurs over: the keys seq, one more element read.
OneMoreKey(seq, c) == IF c \in {TimerText, Junk} THEN seq ELSE Append(seq, c)

\* keysOf lists the keys of the first 0, 1, ..., n elements of a text.
ListsKeys(text, n, keysOf) ==
  keysOf = [m \in 0 .. n |-> IF m = 0 THEN << >>
                             ELSE OneMoreKey(keysOf[m - 1], text[m])]

(* Such a list exists: were there a shortest text without one, the list of  *)
(* the text one shorter would extend to one.                                *)
LEMMA ListExists ==
  ASSUME NEW text
  PROVE  \A n \in Nat : \E f : ListsKeys(text, n, f)
<1> DEFINE T == {n \in Nat : ~ \E f : ListsKeys(text, n, f)}
<1>1. SUFFICES ASSUME T # {} PROVE FALSE
  OBVIOUS
<1>2. PICK n \in T : \A m \in T : n <= m
  BY <1>1, LeastNumber
<1>3. n \in Nat /\ ~ \E f : ListsKeys(text, n, f)
  OBVIOUS
<1>4. CASE n = 0
  <2> DEFINE f == [m \in 0 .. 0 |-> << >>]
  <2>1. ListsKeys(text, 0, f)
    BY DEF ListsKeys
  <2> QED
    BY <1>3, <1>4, <2>1
<1>5. CASE n # 0
  <2>1. n - 1 \in Nat /\ n - 1 \notin T
    BY <1>2, <1>3, <1>5
  <2>2. PICK f : ListsKeys(text, n - 1, f)
    BY <2>1
  <2> DEFINE g == [m \in 0 .. n |->
                     IF m < n THEN f[m] ELSE OneMoreKey(f[n - 1], text[n])]
             EntryOf(h, m) ==
               IF m = 0 THEN << >> ELSE OneMoreKey(h[m - 1], text[m])
  <2>3. ASSUME NEW m \in 0 .. n PROVE g[m] = EntryOf(g, m)
    <3>1. CASE m = 0
      <4>1. g[0] = f[0] /\ 0 \in 0 .. n - 1
        BY <1>3, <1>5
      <4>2. f[0] = << >>
        BY <2>2, <4>1 DEF ListsKeys
      <4> HIDE DEF g
      <4> QED
        BY <3>1, <4>1, <4>2
    <3>2. CASE m # 0
      <4>1. m - 1 \in 0 .. n - 1 /\ g[m - 1] = f[m - 1]
        BY <1>3, <3>2
      <4>2. CASE m < n
        <5>1. g[m] = f[m] /\ m \in 0 .. n - 1
          BY <1>3, <4>2
        <5>2. f[m] = EntryOf(f, m)
          BY <2>2, <5>1 DEF ListsKeys
        <5> HIDE DEF g
        <5> QED
          BY <3>2, <4>1, <5>1, <5>2, Zenon
      <4>3. CASE m = n
        <5>1. g[m] = OneMoreKey(f[m - 1], text[m])
          BY <1>3, <4>3
        <5> HIDE DEF g
        <5> QED
          BY <3>2, <4>1, <5>1, Zenon
      <4> QED
        BY <1>3, <4>2, <4>3
    <3> QED
      BY <3>1, <3>2
  <2>4. g = [m \in 0 .. n |-> g[m]]
    OBVIOUS
  <2> HIDE DEF g
  <2>5. g = [m \in 0 .. n |-> EntryOf(g, m)]
    BY <2>3, <2>4
  <2>6. ListsKeys(text, n, g)
    BY <2>5 DEF ListsKeys
  <2> QED
    BY <1>3, <2>6, Zenon
<1> QED
  BY <1>4, <1>5

(* KeysOf is the last entry of the list.                                    *)
LEMMA KeysOfList ==
  ASSUME NEW text, Len(text) \in Nat
  PROVE  \E f : ListsKeys(text, Len(text), f) /\ KeysOf(text) = f[Len(text)]
<1> DEFINE Entry(f, m) ==
             IF m = 0 THEN << >>
             ELSE IF text[m] \in {TimerText, Junk} THEN f[m - 1]
             ELSE Append(f[m - 1], text[m])
           f == CHOOSE g : g = [m \in 0 .. Len(text) |-> Entry(g, m)]
<1>1. KeysOf(text) = f[Len(text)]
  BY DEF KeysOf
<1>2. PICK g : ListsKeys(text, Len(text), g)
  BY ListExists
<1>3. g = [m \in 0 .. Len(text) |-> Entry(g, m)]
  BY <1>2 DEF ListsKeys, OneMoreKey
<1>4. f = [m \in 0 .. Len(text) |-> Entry(f, m)]
  <2> HIDE DEF Entry
  <2> QED
    BY <1>3, Zenon
<1>5. ListsKeys(text, Len(text), f)
  <2> HIDE DEF f
  <2> QED
    BY <1>4 DEF ListsKeys, OneMoreKey
<1> QED
  BY <1>1, <1>5, Zenon

(* What a print adds to the keys printed: the lists of the two texts begin  *)
(* alike, for else there would be a least place where they differ.          *)
LEMMA KeysOfAppend ==
  ASSUME NEW S, NEW text \in Seq(S), NEW c \in S
  PROVE  KeysOf(Append(text, c)) = OneMoreKey(KeysOf(text), c)
<1> DEFINE more == Append(text, c)
           n == Len(text)
<1>1. /\ n \in Nat /\ Len(more) = n + 1
      /\ \A i \in 1 .. n : text[i] = more[i]
      /\ more[n + 1] = c
  OBVIOUS
<1>2. PICK f : ListsKeys(text, n, f) /\ KeysOf(text) = f[n]
  BY <1>1, KeysOfList
<1>3. PICK g : ListsKeys(more, n + 1, g) /\ KeysOf(more) = g[n + 1]
  <2> HIDE DEF more, n
  <2>1. Len(more) \in Nat
    BY <1>1
  <2>2. \E g : ListsKeys(more, Len(more), g) /\ KeysOf(more) = g[Len(more)]
    BY <2>1, KeysOfList, Zenon
  <2> QED
    BY <1>1, <2>2
<1> HIDE DEF more, n
<1>4. f[n] = g[n]
  <2> DEFINE T == {i \in 0 .. n : f[i] # g[i]}
  <2>1. SUFFICES ASSUME T # {} PROVE FALSE
    BY <1>1
  <2>2. PICK i \in T : \A j \in T : i <= j
    <3>1. T \subseteq Nat
      BY <1>1
    <3> HIDE DEF T
    <3> QED
      BY <2>1, <3>1, LeastNumber
  <2>3. i \in 0 .. n /\ i \in 0 .. n + 1 /\ f[i] # g[i]
    BY <1>1
  <2>4. i # 0
    <3>1. f[0] = << >> /\ g[0] = << >>
      BY <1>1, <1>2, <1>3 DEF ListsKeys
    <3> QED
      BY <2>3, <3>1
  <2>5. i - 1 \in 0 .. n /\ i - 1 \notin T /\ i \in 1 .. n
    BY <1>1, <2>2, <2>3, <2>4
  <2>6. f[i - 1] = g[i - 1] /\ text[i] = more[i]
    BY <1>1, <2>5
  <2>7. /\ f[i] = OneMoreKey(f[i - 1], text[i])
        /\ g[i] = OneMoreKey(g[i - 1], more[i])
    BY <1>2, <1>3, <2>3, <2>4 DEF ListsKeys
  <2> QED
    BY <2>3, <2>6, <2>7
<1>5. g[n + 1] = OneMoreKey(g[n], c)
  BY <1>1, <1>3 DEF ListsKeys
<1> QED
  BY <1>2, <1>3, <1>4, <1>5 DEF more

(* Nothing printed, no keys.                                                *)
LEMMA KeysOfEmpty == KeysOf(<< >>) = << >>
<1>1. Len(<< >>) = 0
  OBVIOUS
<1>2. PICK f : ListsKeys(<< >>, 0, f) /\ KeysOf(<< >>) = f[0]
  BY <1>1, KeysOfList
<1> QED
  BY <1>2 DEF ListsKeys
-----------------------------------------------------------------------------
(* The keys on their way *)

\* Keys that print a character when they are pressed.
PrintingKeys == Keys \ SilentKeys

\* Whether byte i of those not yet read is one of a release, when rel says
\* it of the first.
OfRelease(bytes, rel, i) == IF i = 1 THEN rel ELSE bytes[i - 1] = KeyReleasedCode

\* Whether reading byte i will print a character of chars.
Prints(bytes, rel, i) == bytes[i] \in PrintingKeys /\ ~OfRelease(bytes, rel, i)

\* The bytes not yet read print what is missing of chars: when i of them are
\* read, at[i] characters are printed.
WillPrint(bytes, rel, typed, chars, at) ==
  /\ typed \in Seq(Keys) /\ chars \in Seq(Keys)
  /\ Len(typed) <= Len(chars)
  /\ \A i \in 1 .. Len(typed) : typed[i] = chars[i]
  /\ at \in [0 .. Len(bytes) -> 0 .. Len(chars)]
  /\ at[0] = Len(typed) /\ at[Len(bytes)] = Len(chars)
  /\ \A i \in 1 .. Len(bytes) :
       IF Prints(bytes, rel, i)
       THEN at[i] = at[i - 1] + 1 /\ chars[at[i]] = bytes[i]
       ELSE at[i] = at[i - 1]

\* Whether the next byte sent would be one of a release.
EndsInRelease(bytes, rel) == OfRelease(bytes, rel, Len(bytes) + 1)

\* What was pressed is printed or on its way, and no release is half sent.
KeysOnTheirWay ==
  /\ \E at : WillPrint(kbd, released, Typed, pressed, at)
  /\ ~EndsInRelease(kbd, released)

\* So it is as long as no byte came in the firmware's codes.
KeysInvariant == ~translated => KeysOnTheirWay

(* One byte read, one place on; a byte that prints adds its character.      *)
LEMMA ReadByte ==
  ASSUME NEW bytes \in Seq(Bytes), bytes # << >>, NEW rel, NEW typed, NEW chars,
         NEW at, WillPrint(bytes, rel, typed, chars, at),
         NEW typed2,
         typed2 = IF Prints(bytes, rel, 1) THEN Append(typed, bytes[1]) ELSE typed
  PROVE  /\ \E at2 : WillPrint(Tail(bytes), bytes[1] = KeyReleasedCode, typed2,
                               chars, at2)
         /\ EndsInRelease(Tail(bytes), bytes[1] = KeyReleasedCode) =
              EndsInRelease(bytes, rel)
<1> DEFINE rest == Tail(bytes)
           n == Len(rest)
           rel2 == bytes[1] = KeyReleasedCode
           at2 == [i \in 0 .. n |-> at[i + 1]]
<1>1. /\ n \in Nat /\ Len(bytes) = n + 1
      /\ \A i \in 1 .. n : rest[i] = bytes[i + 1]
  OBVIOUS
<1> HIDE DEF rest, n
<1>2. \A i \in 1 .. n + 1 : OfRelease(rest, rel2, i) = OfRelease(bytes, rel, i + 1)
  <2> SUFFICES ASSUME NEW i \in 1 .. n + 1
               PROVE  OfRelease(rest, rel2, i) = OfRelease(bytes, rel, i + 1)
    OBVIOUS
  <2>1. i + 1 # 1 /\ i + 1 - 1 = i
    BY <1>1
  <2>2. CASE i = 1
    BY <2>1, <2>2 DEF OfRelease
  <2>3. CASE i # 1
    <3>1. rest[i - 1] = bytes[i]
      BY <1>1, <2>3
    <3> QED
      BY <2>1, <2>3, <3>1 DEF OfRelease
  <2> QED
    BY <2>2, <2>3
<1>3. \A i \in 1 .. n : Prints(rest, rel2, i) = Prints(bytes, rel, i + 1)
  BY <1>1, <1>2 DEF Prints
<1>4. EndsInRelease(rest, rel2) = EndsInRelease(bytes, rel)
  <2>1. n + 1 \in 1 .. n + 1 /\ Len(bytes) + 1 = n + 1 + 1
    BY <1>1
  <2>2. OfRelease(rest, rel2, n + 1) = OfRelease(bytes, rel, n + 1 + 1)
    BY <1>2, <2>1
  <2> QED
    BY <2>1, <2>2, Zenon DEF EndsInRelease, n
<1> HIDE DEF rel2
<1>5. /\ typed \in Seq(Keys) /\ chars \in Seq(Keys)
      /\ Len(typed) <= Len(chars)
      /\ \A i \in 1 .. Len(typed) : typed[i] = chars[i]
      /\ at \in [0 .. n + 1 -> 0 .. Len(chars)]
      /\ at[0] = Len(typed) /\ at[n + 1] = Len(chars)
  BY <1>1 DEF WillPrint
<1>6. \A i \in 1 .. n + 1 :
        IF Prints(bytes, rel, i)
        THEN at[i] = at[i - 1] + 1 /\ chars[at[i]] = bytes[i]
        ELSE at[i] = at[i - 1]
  BY <1>1 DEF WillPrint
<1>7. /\ at2 \in [0 .. n -> 0 .. Len(chars)] /\ at2[n] = Len(chars)
      /\ \A i \in 0 .. n : at2[i] = at[i + 1]
  BY <1>1, <1>5
<1> HIDE DEF at2
<1>8. ASSUME NEW i \in 1 .. n
      PROVE  IF Prints(rest, rel2, i)
             THEN at2[i] = at2[i - 1] + 1 /\ chars[at2[i]] = rest[i]
             ELSE at2[i] = at2[i - 1]
  <2>1. /\ i + 1 \in 1 .. n + 1 /\ i - 1 \in 0 .. n /\ i \in 0 .. n
        /\ (i + 1) - 1 = i /\ (i - 1) + 1 = i
    BY <1>1
  <2>2. at2[i] = at[i + 1] /\ at2[i - 1] = at[i] /\ rest[i] = bytes[i + 1]
    BY <1>1, <1>7, <2>1
  <2> QED
    BY <1>3, <1>6, <2>1, <2>2
<1>9. /\ typed2 \in Seq(Keys) /\ Len(typed2) <= Len(chars)
      /\ \A i \in 1 .. Len(typed2) : typed2[i] = chars[i]
      /\ at2[0] = Len(typed2)
  <2>1. at2[0] = at[1] /\ at[1] \in 0 .. Len(chars) /\ 1 \in 1 .. n + 1
    BY <1>1, <1>5, <1>7
  <2>2. CASE ~Prints(bytes, rel, 1)
    <3>1. at[1] = at[0]
      BY <1>6, <2>1, <2>2
    <3> QED
      BY <1>5, <2>1, <2>2, <3>1
  <2>3. CASE Prints(bytes, rel, 1)
    <3>1. at[1] = at[0] + 1 /\ chars[at[1]] = bytes[1]
      BY <1>6, <2>1, <2>3
    <3>2. bytes[1] \in Keys
      BY <2>3 DEF Prints, PrintingKeys
    <3>3. typed2 = Append(typed, bytes[1])
      BY <2>3
    <3>4. /\ typed2 \in Seq(Keys) /\ Len(typed2) = Len(typed) + 1
          /\ typed2[Len(typed) + 1] = bytes[1]
          /\ \A i \in 1 .. Len(typed) : typed2[i] = typed[i]
      BY <1>5, <3>2, <3>3
    <3>5. Len(typed) \in Nat /\ Len(chars) \in Nat
      BY <1>5
    <3> QED
      BY <1>5, <2>1, <3>1, <3>4, <3>5
  <2> QED
    BY <2>2, <2>3
<1>10. WillPrint(rest, rel2, typed2, chars, at2)
  BY <1>1, <1>5, <1>7, <1>8, <1>9 DEF WillPrint, n
<1> QED
  BY <1>4, <1>10, Zenon DEF rest, rel2

(* One byte sent, which will print if a pressed key's character is it.      *)
LEMMA SendByte ==
  ASSUME NEW bytes \in Seq(Bytes), NEW rel, NEW typed, NEW chars,
         NEW at, WillPrint(bytes, rel, typed, chars, at),
         NEW b \in Bytes, NEW chars2,
         chars2 = IF b \in PrintingKeys /\ ~EndsInRelease(bytes, rel)
                  THEN Append(chars, b) ELSE chars
  PROVE  /\ \E at2 : WillPrint(Append(bytes, b), rel, typed, chars2, at2)
         /\ EndsInRelease(Append(bytes, b), rel) = (b = KeyReleasedCode)
<1> DEFINE more == Append(bytes, b)
           n == Len(bytes)
           at2 == [i \in 0 .. n + 1 |-> IF i = n + 1 THEN Len(chars2) ELSE at[i]]
<1>1. /\ n \in Nat /\ Len(more) = n + 1 /\ more[n + 1] = b
      /\ \A i \in 1 .. n : more[i] = bytes[i]
  OBVIOUS
<1> HIDE DEF more, n
<1>2. \A i \in 1 .. n + 1 : OfRelease(more, rel, i) = OfRelease(bytes, rel, i)
  <2> SUFFICES ASSUME NEW i \in 1 .. n + 1
               PROVE  OfRelease(more, rel, i) = OfRelease(bytes, rel, i)
    OBVIOUS
  <2>1. i = 1 \/ more[i - 1] = bytes[i - 1]
    BY <1>1
  <2> QED
    BY <2>1 DEF OfRelease
<1>3. EndsInRelease(more, rel) = (b = KeyReleasedCode)
  <2>1. n + 1 + 1 # 1 /\ n + 1 + 1 - 1 = n + 1
    BY <1>1
  <2> QED
    BY <1>1, <2>1 DEF EndsInRelease, OfRelease
<1>4. /\ \A i \in 1 .. n : Prints(more, rel, i) = Prints(bytes, rel, i)
      /\ Prints(more, rel, n + 1) <=> b \in PrintingKeys /\ ~EndsInRelease(bytes, rel)
  <2>1. n + 1 \in 1 .. n + 1
    BY <1>1
  <2>2. \A i \in 1 .. n : i \in 1 .. n + 1
    BY <1>1
  <2> QED
    BY <1>1, <1>2, <2>1, <2>2 DEF Prints, EndsInRelease, n
<1>5. /\ typed \in Seq(Keys) /\ chars \in Seq(Keys)
      /\ Len(typed) <= Len(chars)
      /\ \A i \in 1 .. Len(typed) : typed[i] = chars[i]
      /\ at \in [0 .. n -> 0 .. Len(chars)]
      /\ at[0] = Len(typed) /\ at[n] = Len(chars)
      /\ Len(typed) \in Nat /\ Len(chars) \in Nat
  BY DEF WillPrint, n
<1>6. \A i \in 1 .. n :
        IF Prints(bytes, rel, i)
        THEN at[i] = at[i - 1] + 1 /\ chars[at[i]] = bytes[i]
        ELSE at[i] = at[i - 1]
  BY DEF WillPrint, n
<1>7. /\ chars2 \in Seq(Keys)
      /\ \A i \in 1 .. Len(chars) : chars2[i] = chars[i]
      /\ IF Prints(more, rel, n + 1)
         THEN Len(chars2) = Len(chars) + 1 /\ chars2[Len(chars2)] = b
         ELSE Len(chars2) = Len(chars)
  <2>1. CASE Prints(more, rel, n + 1)
    <3>1. chars2 = Append(chars, b) /\ b \in Keys
      BY <1>4, <2>1 DEF PrintingKeys
    <3> QED
      BY <1>5, <2>1, <3>1
  <2>2. CASE ~Prints(more, rel, n + 1)
    BY <1>4, <1>5, <2>2
  <2> QED
    BY <2>1, <2>2
<1>8. Len(chars2) \in Nat /\ Len(chars) <= Len(chars2)
  BY <1>5, <1>7
<1>9. /\ at2 \in [0 .. n + 1 -> 0 .. Len(chars2)]
      /\ at2[n + 1] = Len(chars2)
      /\ \A i \in 0 .. n : at2[i] = at[i]
  BY <1>1, <1>5, <1>8
<1> HIDE DEF at2
<1>10. ASSUME NEW i \in 1 .. n + 1
       PROVE  IF Prints(more, rel, i)
              THEN at2[i] = at2[i - 1] + 1 /\ chars2[at2[i]] = more[i]
              ELSE at2[i] = at2[i - 1]
  <2>1. CASE i = n + 1
    <3>1. at2[i] = Len(chars2) /\ at2[i - 1] = Len(chars) /\ more[i] = b
      BY <1>1, <1>5, <1>9, <2>1
    <3> QED
      BY <1>7, <2>1, <3>1
  <2>2. CASE i \in 1 .. n
    <3>0. i \in 0 .. n /\ i - 1 \in 0 .. n
      BY <1>1, <2>2
    <3>1. at2[i] = at[i] /\ at2[i - 1] = at[i - 1] /\ more[i] = bytes[i]
      BY <1>1, <1>9, <2>2, <3>0
    <3>2. Prints(more, rel, i) = Prints(bytes, rel, i)
      BY <1>4, <2>2
    <3>3. ASSUME Prints(bytes, rel, i)
          PROVE  at[i] = at[i - 1] + 1 /\ chars2[at[i]] = bytes[i]
      <4>1. at[i] = at[i - 1] + 1 /\ chars[at[i]] = bytes[i]
        BY <1>6, <2>2, <3>3
      <4>2. at[i] \in 0 .. Len(chars) /\ at[i - 1] \in 0 .. Len(chars)
        BY <1>1, <1>5, <2>2
      <4>3. at[i] \in 1 .. Len(chars)
        BY <1>5, <4>1, <4>2
      <4> QED
        BY <1>7, <4>1, <4>3
    <3> QED
      BY <1>6, <2>2, <3>1, <3>2, <3>3
  <2>3. i = n + 1 \/ i \in 1 .. n
    BY <1>1
  <2> QED
    BY <2>1, <2>2, <2>3, Zenon
<1>11. /\ Len(typed) <= Len(chars2)
       /\ \A i \in 1 .. Len(typed) : typed[i] = chars2[i]
       /\ at2[0] = Len(typed)
  BY <1>1, <1>5, <1>7, <1>8, <1>9
<1>12. WillPrint(more, rel, typed, chars2, at2)
  BY <1>1, <1>5, <1>7, <1>9, <1>10, <1>11 DEF WillPrint
<1> QED
  BY <1>3, <1>12, Zenon DEF more

(* Nothing sent and nothing printed.                                        *)
LEMMA KeysInit == Init => KeysOnTheirWay
<1> SUFFICES ASSUME Init PROVE KeysOnTheirWay
  OBVIOUS
<1> DEFINE at == [i \in 0 .. 0 |-> 0]
<1>1. /\ kbd = << >> /\ pressed = << >> /\ released = FALSE /\ Typed = << >>
      /\ Len(kbd) = 0 /\ Len(pressed) = 0 /\ << >> \in Seq(Keys)
  BY KeysOfEmpty DEF Init, Typed
<1>2. WillPrint(kbd, released, Typed, pressed, at)
  BY <1>1 DEF WillPrint
<1>3. ~EndsInRelease(kbd, released)
  BY <1>1 DEF EndsInRelease, OfRelease
<1> QED
  BY <1>2, <1>3 DEF KeysOnTheirWay

(* A byte that would print is a key's that is pressed: it is printed, unless *)
(* it belongs to a release; nothing else adds to the keys printed.          *)
LEMMA KeyRead ==
  ASSUME TypeOK, keyboard_interrupt
  PROVE  /\ kbd # << >> /\ kbd' = Tail(kbd)
         /\ released' = (kbd[1] = KeyReleasedCode) /\ pressed' = pressed
         /\ Typed' = IF Prints(kbd, released, 1)
                     THEN Append(Typed, kbd[1]) ELSE Typed
<1>1. /\ kbd # << >> /\ kbd \in Seq(Bytes) /\ obf
      /\ printed \in Seq(Keys \cup {TimerText, Junk})
  BY DEF TypeOK, keyboard_interrupt
<1>2. /\ Head(kbd) = kbd[1] /\ kbd[1] \in Bytes
  BY <1>1
<1>3. /\ kbd' = Tail(kbd) /\ released' = (kbd[1] = KeyReleasedCode)
      /\ pressed' = pressed
      /\ IF kbd[1] = KeyReleasedCode \/ released
         THEN printed' = printed
         ELSE \E text \in TextOf(kbd[1]) : printed' = printed \o text
  BY <1>2 DEF keyboard_interrupt, AfterCode, events
<1>4. Typed' = KeysOf(printed')
  BY DEF Typed
<1>5. Prints(kbd, released, 1) <=> kbd[1] \in PrintingKeys /\ ~released
  BY DEF Prints, OfRelease
<1>6. Typed' = IF Prints(kbd, released, 1) THEN Append(Typed, kbd[1]) ELSE Typed
  <2>1. CASE kbd[1] = KeyReleasedCode \/ released
    <3>1. ~Prints(kbd, released, 1)
      BY <1>5, <2>1, KeysAssumption DEF PrintingKeys
    <3> QED
      BY <1>3, <1>4, <2>1, <3>1 DEF Typed
  <2>2. CASE kbd[1] # KeyReleasedCode /\ ~released
    <3>1. PICK text \in TextOf(kbd[1]) : printed' = printed \o text
      BY <1>3, <2>2
    <3>2. CASE kbd[1] \in {ExtendedCode, FirmwareCode}
      <4>1. ~Prints(kbd, released, 1)
        BY <1>5, <3>2, KeysAssumption DEF PrintingKeys
      <4>2. text = << >> \/ text = <<Junk>>
        BY <3>1, <3>2 DEF TextOf
      <4>3. printed' = printed \/ printed' = Append(printed, Junk)
        <5>1. CASE text = << >>
          BY <1>1, <3>1, <5>1
        <5>2. CASE text = <<Junk>>
          BY <1>1, <3>1, <5>2
        <5> QED
          BY <4>2, <5>1, <5>2
      <4>4. KeysOf(Append(printed, Junk)) = OneMoreKey(KeysOf(printed), Junk)
        BY <1>1, KeysOfAppend
      <4> QED
        BY <1>4, <4>1, <4>3, <4>4 DEF Typed, OneMoreKey
    <3>3. CASE kbd[1] \notin {ExtendedCode, FirmwareCode} /\ kbd[1] \in SilentKeys
      <4>1. ~Prints(kbd, released, 1)
        BY <1>5, <3>3 DEF PrintingKeys
      <4>2. text = << >>
        BY <3>1, <3>3 DEF TextOf
      <4>3. printed' = printed
        BY <1>1, <3>1, <4>2
      <4> QED
        BY <1>4, <4>1, <4>3 DEF Typed
    <3>4. CASE kbd[1] \notin {ExtendedCode, FirmwareCode} /\ kbd[1] \notin SilentKeys
      <4>1. kbd[1] \in Keys /\ Prints(kbd, released, 1)
        BY <1>2, <1>5, <2>2, <3>4 DEF Bytes, PrintingKeys
      <4>2. text = <<kbd[1]>>
        BY <3>1, <3>4 DEF TextOf
      <4>3. printed' = Append(printed, kbd[1])
        BY <1>1, <3>1, <4>1, <4>2
      <4>4. KeysOf(Append(printed, kbd[1])) = OneMoreKey(KeysOf(printed), kbd[1])
        BY <1>1, <4>1, KeysOfAppend
      <4>5. kbd[1] \notin {TimerText, Junk}
        BY <4>1, KeysAssumption
      <4> QED
        BY <1>4, <4>1, <4>3, <4>4, <4>5 DEF Typed, OneMoreKey
    <3> QED
      BY <3>2, <3>3, <3>4
  <2> QED
    BY <2>1, <2>2
<1> QED
  BY <1>1, <1>3, <1>6

(* A key pressed sends one byte that prints, or none if it has no           *)
(* character; a key released sends none.                                    *)
LEMMA KeySent ==
  ASSUME TypeOK, KeysOnTheirWay, NEW k \in Keys, PressKey(k) \/ ReleaseKey(k)
  PROVE  KeysOnTheirWay'
<1>1. /\ kbd \in Seq(Bytes) /\ UNCHANGED <<released, printed>>
      /\ k \in Bytes /\ {ExtendedCode, KeyReleasedCode} \subseteq Bytes
      /\ k \notin {ExtendedCode, KeyReleasedCode}
      /\ {ExtendedCode, KeyReleasedCode} \cap PrintingKeys = {}
      /\ ExtendedCode # KeyReleasedCode
  BY KeysAssumption
     DEF TypeOK, PressKey, ReleaseKey, KeySends, Bytes, PrintingKeys,
         ExtendedCode, KeyReleasedCode
<1>2. Typed' = Typed
  BY <1>1 DEF Typed
<1>3. PICK at0 : WillPrint(kbd, released, Typed, pressed, at0)
  BY DEF KeysOnTheirWay
<1>4. ~EndsInRelease(kbd, released)
  BY DEF KeysOnTheirWay
<1> DEFINE start ==
             IF k \in ExtendedKeys THEN Append(kbd, ExtendedCode) ELSE kbd
<1>5. /\ start \in Seq(Bytes) /\ ~EndsInRelease(start, released)
      /\ \E at : WillPrint(start, released, Typed, pressed, at)
  <2>1. CASE k \in ExtendedKeys
    <3>1. start = Append(kbd, ExtendedCode) /\ start \in Seq(Bytes)
      BY <1>1, <2>1
    <3>2. /\ \E at : WillPrint(Append(kbd, ExtendedCode), released, Typed,
                              pressed, at)
          /\ EndsInRelease(Append(kbd, ExtendedCode), released) =
               (ExtendedCode = KeyReleasedCode)
      BY <1>1, <1>3, SendByte
    <3> HIDE DEF start
    <3> QED
      BY <1>1, <3>1, <3>2
  <2>2. CASE k \notin ExtendedKeys
    BY <1>1, <1>3, <1>4, <2>2
  <2> QED
    BY <2>1, <2>2
<1>6. CASE PressKey(k)
  <2>1. kbd' = Append(start, k)
    <3>1. kbd' = kbd \o Prefixed(k, <<k>>)
      BY <1>6 DEF PressKey, KeySends
    <3> QED
      BY <1>1, <3>1 DEF Prefixed
  <2> HIDE DEF start
  <2>2. PICK at : WillPrint(start, released, Typed, pressed, at)
    BY <1>5
  <2>3. pressed' = IF k \in PrintingKeys /\ ~EndsInRelease(start, released)
                   THEN Append(pressed, k) ELSE pressed
    BY <1>5, <1>6 DEF PressKey, PrintingKeys
  <2>4. /\ \E at2 : WillPrint(Append(start, k), released, Typed, pressed', at2)
        /\ EndsInRelease(Append(start, k), released) = (k = KeyReleasedCode)
    BY <1>1, <1>5, <2>2, <2>3, SendByte
  <2> QED
    BY <1>1, <1>2, <2>1, <2>4 DEF KeysOnTheirWay
<1>7. CASE ReleaseKey(k)
  <2> DEFINE next == Append(start, KeyReleasedCode)
  <2>1. kbd' = Append(next, k)
    <3>1. kbd' = kbd \o Prefixed(k, <<KeyReleasedCode, k>>)
      BY <1>7 DEF ReleaseKey, KeySends
    <3> QED
      BY <1>1, <3>1 DEF Prefixed
  <2>2. pressed' = pressed
    BY <1>7 DEF ReleaseKey
  <2> HIDE DEF start
  <2>3. PICK at : WillPrint(start, released, Typed, pressed, at)
    BY <1>5
  <2>4. /\ \E at2 : WillPrint(next, released, Typed, pressed, at2)
        /\ EndsInRelease(next, released) = (KeyReleasedCode = KeyReleasedCode)
    BY <1>1, <1>5, <2>3, SendByte
  <2>5. next \in Seq(Bytes)
    BY <1>1, <1>5
  <2> HIDE DEF next
  <2>6. PICK at2 : WillPrint(next, released, Typed, pressed, at2)
    BY <2>4
  <2>7. /\ \E at3 : WillPrint(Append(next, k), released, Typed, pressed, at3)
        /\ EndsInRelease(Append(next, k), released) = (k = KeyReleasedCode)
    BY <1>1, <2>4, <2>5, <2>6, SendByte
  <2> QED
    BY <1>1, <1>2, <2>1, <2>2, <2>7 DEF KeysOnTheirWay
<1> QED
  BY <1>6, <1>7

(* Steps of neither the keyboard nor a handler that prints.                 *)
LEMMA KeysUntouched ==
  ASSUME KeysOnTheirWay, UNCHANGED <<kbd, released, pressed>>, Typed' = Typed
  PROVE  KeysOnTheirWay'
BY DEF KeysOnTheirWay

(* Keys are on their way from the press to the print through every step.    *)
LEMMA KeysNext == TypeOK /\ KeysInvariant /\ [Next]_vars => KeysInvariant'
<1> SUFFICES ASSUME TypeOK, KeysInvariant, [Next]_vars, ~translated'
             PROVE  KeysOnTheirWay'
  BY DEF KeysInvariant
<1>0. ~translated /\ KeysOnTheirWay
  <2>1. translated = translated' \/ FillOutputBuffer
    BY DEF Next, Main, MainStep, MainRuns, setup_interrupt_handlers, SaveMasks,
           InitializationWords, RestoreMasks, init_exception_handlers, EnableInterrupts,
           ProgramKeyboard, ReadMask, WriteMask, AddTimerHandler, AddKeyboardHandler,
           Shim, HaltingHandler, QuietHandler, timer_print, keyboard_interrupt, WriteEOI,
           ReturnFromInterrupt, Devices, Tick, OtherRequest, PressKey, ReleaseKey, KeySends,
           RaiseFault, AcceptInterrupt, EnterException, vars, events
  <2>2. FillOutputBuffer => translated = translated'
    BY DEF FillOutputBuffer
  <2> QED
    BY <2>1, <2>2 DEF KeysInvariant
<1> USE DEF hardware, cpu, events
<1>1. ASSUME UNCHANGED <<kbd, released, pressed, printed>> PROVE KeysOnTheirWay'
  BY <1>0, <1>1, KeysUntouched DEF Typed
<1>2. CASE Main
  BY <1>1, <1>2
     DEF Main, setup_interrupt_handlers, SaveMasks, InitializationWords,
         RestoreMasks, init_exception_handlers, EnableInterrupts, ProgramKeyboard, ReadMask,
         WriteMask, AddTimerHandler, AddKeyboardHandler
<1>3. CASE Shim
  <2>1. CASE HaltingHandler \/ QuietHandler \/ WriteEOI \/ ReturnFromInterrupt
    BY <1>1, <2>1
       DEF HaltingHandler, QuietHandler, WriteEOI, ReturnFromInterrupt
  <2>2. CASE timer_print
    <3>1. printed' = Append(printed, TimerText)
      BY <2>2 DEF timer_print
    <3>2. printed \in Seq(Keys \cup {TimerText, Junk})
      BY DEF TypeOK
    <3>3. Typed' = OneMoreKey(Typed, TimerText)
      BY <3>1, <3>2, KeysOfAppend DEF Typed
    <3> QED
      BY <1>0, <2>2, <3>3, KeysUntouched DEF timer_print, OneMoreKey
  <2>3. CASE keyboard_interrupt
    <3>1. PICK at : WillPrint(kbd, released, Typed, pressed, at)
      BY <1>0 DEF KeysOnTheirWay
    <3>2. kbd \in Seq(Bytes)
      BY DEF TypeOK
    <3>3. /\ \E at2 : WillPrint(Tail(kbd), kbd[1] = KeyReleasedCode, Typed',
                                pressed, at2)
          /\ EndsInRelease(Tail(kbd), kbd[1] = KeyReleasedCode) =
               EndsInRelease(kbd, released)
      BY <2>3, <3>1, <3>2, KeyRead, ReadByte
    <3>4. /\ \E at2 : WillPrint(kbd', released', Typed', pressed', at2)
          /\ ~EndsInRelease(kbd', released')
      BY <1>0, <2>3, <3>3, KeyRead DEF KeysOnTheirWay
    <3> QED
      BY <3>4 DEF KeysOnTheirWay
  <2> QED
    BY <1>3, <2>1, <2>2, <2>3 DEF Shim
<1>4. CASE Devices
  BY <1>0, <1>1, <1>4, KeySent DEF Devices, Tick, OtherRequest, RaiseFault
<1>5. CASE FillOutputBuffer \/ EnterException \/ UNCHANGED vars
  BY <1>1, <1>5 DEF FillOutputBuffer, EnterException, vars
<1>6. ASSUME NEW l \in Lines, AcceptInterrupt(l) PROVE KeysOnTheirWay'
  BY <1>1, <1>6 DEF AcceptInterrupt
<1> QED
  BY <1>2, <1>3, <1>4, <1>5, <1>6 DEF Next

(* Every key pressed that has a character is printed or will be, whatever   *)
(* the order of presses, releases, ticks and the handler's calls, as long   *)
(* as no byte came before the controller was programmed.                    *)
THEOREM KeysCorrect == Spec => []KeysInvariant
<1>1. Init => KeysInvariant
  BY KeysInit DEF KeysInvariant
<1> QED
  BY <1>1, KeysNext, TypeCorrect, PTL DEF Spec

(* Under the same condition keys print their characters once each and in    *)
(* the order they are pressed, and all have when no byte is left to be      *)
(* read.  Nothing is said of what else a code may print.                    *)
THEOREM KeysPrintedInOrderCorrect == Spec => []KeysPrintedInOrder
<1>1. KeysInvariant => KeysPrintedInOrder
  <2> SUFFICES ASSUME KeysOnTheirWay
               PROVE  IsPrefix(Typed, pressed) /\ (kbd = << >> => Typed = pressed)
    BY DEF KeysInvariant, KeysPrintedInOrder
  <2>1. PICK at : WillPrint(kbd, released, Typed, pressed, at)
    BY DEF KeysOnTheirWay
  <2>2. /\ Typed \in Seq(Keys) /\ pressed \in Seq(Keys)
        /\ Len(Typed) <= Len(pressed)
        /\ \A i \in 1 .. Len(Typed) : Typed[i] = pressed[i]
    BY <2>1 DEF WillPrint
  <2>3. SubSeq(Typed, 1, Len(Typed)) = SubSeq(pressed, 1, Len(Typed))
    <3> DEFINE s == SubSeq(Typed, 1, Len(Typed))
               t == SubSeq(pressed, 1, Len(Typed))
    <3>1. /\ s \in Seq(Keys) /\ t \in Seq(Keys)
          /\ Len(s) = Len(Typed) /\ Len(t) = Len(Typed)
          /\ \A i \in 1 .. Len(Typed) : s[i] = Typed[i] /\ t[i] = pressed[i]
      BY <2>2
    <3> HIDE DEF s, t
    <3> QED
      BY <2>2, <3>1, SeqEqual DEF s, t
  <2>4. ASSUME kbd = << >> PROVE Typed = pressed
    <3>1. Len(Typed) = Len(pressed)
      BY <2>1, <2>4 DEF WillPrint
    <3> QED
      BY <2>2, <3>1, SeqEqual
  <2> QED
    BY <2>2, <2>3, <2>4 DEF IsPrefix
<1> QED
  BY <1>1, KeysCorrect, PTL
==============================================================================
