---------------------------- MODULE GrFlipProofs ----------------------------
(***************************************************************************)
(* Proofs about the screen of the recovery, for any pictures.  IInv of     *)
(* GrFlip is the inductive invariant; the theorems at the end are the two  *)
(* invariants that the run of GrFlip checks.                               *)
(***************************************************************************)
EXTENDS GrFlip, TLAPS

\* The two buffers are each other's other.
LEMMA OtherBuffer ==
    /\ Other(0) = 1 /\ Other(1) = 0
    /\ \A n \in 0..1 : Other(n) \in 0..1 /\ Other(n) # n /\ Other(Other(n)) = n
BY DEF Other

\* The program starts with IInv.
LEMMA InitIInv == Init => IInv
<1> SUFFICES ASSUME Init PROVE IInv
  OBVIOUS
<1>1. TypeOK
  <2>1. Blank \in Contents /\ Garbage \in Contents /\ NULL \in Contents
    BY DEF Contents
  <2>2. [n \in 0..1 |-> Garbage] \in [0..1 -> Contents] /\ <<Blank, Blank>> \in Contents \X Contents
    BY <2>1
  <2>3. gr_framebuffer \in [0..1 -> Contents] /\ last \in Contents \X Contents
    BY <2>2 DEF Init
  <2>4. up \in BOOLEAN /\ refused \in BOOLEAN
    BY DEF Init
  <2>5. fds \subseteq {"vt", "fb"} /\ surface \in Contents /\ tty \in {"text", "graphics"}
    BY <2>1 DEF Init
  <2>6. gr_active_fb \in 0..1 /\ shown \in 0..1
    BY DEF Init
  <2>7. pc = "idle" /\ mapped \in 0..MaxMappings
    BY PointerAssumption DEF Init
  <2>8. QED
    BY <2>3, <2>4, <2>5, <2>6, <2>7 DEF TypeOK
<1>2. Buffers
  BY DEF Init, Buffers
<1>3. Session
  BY PointerAssumption DEF Init, Session
<1>4. QED
  BY <1>1, <1>2, <1>3 DEF IInv

\* Every step keeps the shape of the variables.
LEMMA TypeStep == IInv /\ Next => TypeOK'
<1> SUFFICES ASSUME IInv, Next PROVE TypeOK'
  OBVIOUS
<1> USE DEF IInv, TypeOK
<1>1. CASE OpenConsole
  BY <1>1 DEF OpenConsole, console, memory, screen
<1>2. CASE get_framebuffer
  <2>1. [n \in 0..1 |-> Blank] \in [0..1 -> Contents] /\ <<Blank, Blank>> \in Contents \X Contents
    BY DEF Contents
  <2>2. mapped' \in 0..MaxMappings
    BY <1>2, PointerAssumption DEF get_framebuffer
  <2>3. QED
    BY <1>2, <2>1, <2>2 DEF get_framebuffer
<1>3. CASE InitFails \/ Exit
  BY <1>3 DEF InitFails, Exit, gr_exit, screen, Contents
<1>4. CASE get_memory_surface
  BY <1>4 DEF get_memory_surface, console, Contents
<1>5. CASE StartScreen \/ Swap
  BY <1>5 DEF StartScreen, Swap, set_active_framebuffer, console, memory
<1>6. CASE Draw \/ NoSurface
  BY <1>6 DEF Draw, NoSurface, console, memory, screen, Contents
<1>7. CASE gr_flip
  BY <1>7 DEF gr_flip, console, memory, Contents
<1>8. CASE Copied
  BY <1>8 DEF Copied, console, memory
<1>9. QED
  BY <1>1, <1>2, <1>3, <1>4, <1>5, <1>6, <1>7, <1>8 DEF Next

\* Every step keeps the two last pictures in the two buffers.
LEMMA BuffersStep == IInv /\ Next => Buffers'
<1> SUFFICES ASSUME IInv, Next PROVE Buffers'
  OBVIOUS
<1> USE DEF IInv
<1>1. CASE OpenConsole
  BY <1>1 DEF OpenConsole, console, memory, screen, Buffers, Session
<1>2. CASE get_framebuffer
  BY <1>2 DEF get_framebuffer, Buffers, Session
<1>3. CASE InitFails
  BY <1>3 DEF InitFails, gr_exit, screen, Buffers, Session
<1>4. CASE get_memory_surface
  BY <1>4 DEF get_memory_surface, console, Buffers
<1>5. CASE StartScreen
  BY <1>5, OtherBuffer
     DEF StartScreen, set_active_framebuffer, console, memory, Buffers, TypeOK
<1>6. CASE Draw \/ NoSurface
  BY <1>6 DEF Draw, NoSurface, console, screen, Buffers
<1>7. CASE gr_flip
  <2>1. /\ gr_active_fb' = Other(gr_active_fb)
        /\ gr_framebuffer' = [gr_framebuffer EXCEPT ![Other(gr_active_fb)] = Garbage]
        /\ pc = "idle" /\ up /\ pc' = "copy"
        /\ UNCHANGED <<shown, refused, last>>
    BY <1>7 DEF gr_flip, Other
  <2>2. gr_framebuffer[gr_active_fb] = last[1] /\ (~refused => shown = gr_active_fb)
    BY <2>1 DEF Buffers
  <2>3. QED
    BY <2>1, <2>2, OtherBuffer DEF Buffers, TypeOK
<1>8. CASE Copied
  <2>1. gr_framebuffer[Other(gr_active_fb)] = last[1] /\ last'[1] = surface /\ last'[2] = last[1]
    BY <1>8 DEF Copied, Buffers
  <2>2. QED
    BY <1>8, <2>1, OtherBuffer DEF Copied, Buffers, TypeOK
<1>9. CASE Swap
  BY <1>9, OtherBuffer DEF Swap, set_active_framebuffer, Buffers, console, memory
<1>10. CASE Exit
  BY <1>10 DEF Exit, gr_exit, screen, Buffers
<1>11. QED
  BY <1>1, <1>2, <1>3, <1>4, <1>5, <1>6, <1>7, <1>8, <1>9, <1>10 DEF Next

\* Every step keeps what gr_exit relies on.
LEMMA SessionStep == IInv /\ Next => Session'
<1> SUFFICES ASSUME IInv, Next PROVE Session'
  OBVIOUS
<1> USE PointerAssumption DEF IInv
<1>1. CASE OpenConsole
  BY <1>1 DEF OpenConsole, console, memory, screen, Session
<1>2. CASE get_framebuffer
  BY <1>2 DEF get_framebuffer, Session
<1>3. CASE InitFails
  BY <1>3 DEF InitFails, gr_exit, screen, Session
<1>4. CASE get_memory_surface
  BY <1>4 DEF get_memory_surface, console, Session, Owned
<1>5. CASE StartScreen
  BY <1>5 DEF StartScreen, console, memory, Session, Owned
<1>6. CASE Draw \/ NoSurface
  BY <1>6 DEF Draw, NoSurface, console, memory, screen, Session, Owned
<1>7. CASE gr_flip
  BY <1>7 DEF gr_flip, console, memory, Session
<1>8. CASE Copied
  BY <1>8 DEF Copied, console, memory, Session
<1>9. CASE Swap
  BY <1>9 DEF Swap, console, memory, Session
<1>10. CASE Exit
  BY <1>10 DEF Exit, gr_exit, screen, Session, Owned
<1>11. QED
  BY <1>1, <1>2, <1>3, <1>4, <1>5, <1>6, <1>7, <1>8, <1>9, <1>10 DEF Next

\* IInv is an inductive invariant of the specification.
THEOREM Invariance == Spec => []IInv
<1>1. IInv /\ [Next]_vars => IInv'
  <2> SUFFICES ASSUME IInv, [Next]_vars PROVE IInv'
    OBVIOUS
  <2>1. CASE Next
    BY <2>1, TypeStep, BuffersStep, SessionStep DEF IInv
  <2>2. CASE UNCHANGED vars
    BY <2>2 DEF vars, console, memory, screen, IInv, TypeOK, Buffers, Session
  <2>3. QED
    BY <2>1, <2>2
<1>2. QED
  BY InitIInv, <1>1, PTL DEF Spec

\* The screen is never more than one flip behind, whichever swaps the driver
\* refuses, and the buffer written is the hidden one if it took the last.
THEOREM ScreenNeverFarBehind == Spec => []ScreenFollows
<1>1. IInv => ScreenFollows
  <2> SUFFICES ASSUME IInv PROVE ScreenFollows
    OBVIOUS
  <2>1. shown = gr_active_fb \/ shown = Other(gr_active_fb)
    BY OtherBuffer DEF IInv, TypeOK
  <2>2. QED
    BY <2>1, OtherBuffer DEF IInv, TypeOK, Buffers, ScreenFollows
<1>2. QED
  BY <1>1, Invariance, PTL

\* Wherever gr_init failed, no file is left open and no surface allocated, and the
\* console is in graphics mode only if the driver would not set it back when it was
\* closed; the surface is freed twice only after an earlier session.
THEOREM AllGivenBack == Spec => []GivenBack
<1>1. IInv => GivenBack
  BY PointerAssumption DEF IInv, Session, GivenBack, Owned
<1>2. QED
  BY <1>1, Invariance, PTL

=============================================================================
