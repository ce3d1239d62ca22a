------------------------------- MODULE GrFlip -------------------------------
(***************************************************************************)
(* recovery/graphics.c: the screen of the recovery.  gr_init takes the     *)
(* console, the framebuffer and a surface in memory; the program draws on  *)
(* that surface and gr_flip copies it to the hidden one of two buffers and *)
(* asks the driver to show it; gr_exit closes the files, frees the surface *)
(* and sets the console to text, but does not unmap the framebuffer.  Any  *)
(* open, ioctl, mmap and malloc may fail, unnoticed where the code does    *)
(* not look.  The callers serialise their calls.                           *)
(*                                                                         *)
(* Whatever is drawn (gr_fill, gr_text, gr_blit) makes another picture.    *)
(* The font and the blanking of the screen are not modelled.               *)
(***************************************************************************)
EXTENDS Integers

CONSTANTS
    Pictures,       \* what can be drawn
    Blank,          \* a cleared buffer
    Garbage,        \* new memory, or a buffer that is being written
    NULL, Dangling, \* gr_mem_surface.data without memory, and after free
    MaxMappings     \* bound: mappings of the framebuffer the address space has room for

ASSUME PointerAssumption ==
    /\ NULL # Dangling /\ {NULL, Dangling} \cap (Pictures \cup {Garbage}) = {}
    /\ MaxMappings \in Nat

VARIABLES
    pc,             \* where gr_init and gr_flip are
    up,             \* gr_init has succeeded and gr_exit has not been called
    again,          \* gr_exit has been called after a gr_init that succeeded
    fds,            \* the open ones of gr_fb_fd and gr_vt_fd
    tty,            \* the mode of the console
    kept,           \* history: the last gr_exit with the console could not set its mode
    surface,        \* gr_mem_surface.data
    freedTwice,     \* it was freed after it had been freed
    mapped,         \* the mappings of the framebuffer there are
    gr_framebuffer, gr_active_fb,
    shown,          \* the buffer the driver shows
    refused,        \* the driver refused the last swap
    last            \* history: the picture flipped last, and the one before

console == <<fds, tty, kept>>
memory  == <<surface, freedTwice, mapped>>
screen  == <<gr_framebuffer, gr_active_fb, shown, refused, last>>
vars    == <<pc, up, again, console, memory, screen>>

Init ==
    /\ pc = "idle" /\ up = FALSE /\ again = FALSE
    /\ fds = {} /\ tty = "text" /\ kept = FALSE
    /\ surface = NULL /\ freedTwice = FALSE /\ mapped = 0
    /\ gr_framebuffer = [n \in 0..1 |-> Garbage]
    /\ gr_active_fb = 0 /\ shown \in 0..1
    /\ refused = FALSE /\ last = <<Blank, Blank>>

Owned == Pictures \cup {Garbage}

\* The pointer is kept: NULL before the first session, dangling after it.  Nobody
\* looks whether the console could be set, and the framebuffer stays mapped.
gr_exit ==
    /\ fds' = {}
    /\ \/ "vt" \in fds /\ tty' = "text" /\ kept' = FALSE
       \/ "vt" \in fds /\ tty' = tty /\ kept' = TRUE
       \/ "vt" \notin fds /\ UNCHANGED <<tty, kept>>
    /\ surface' = IF surface = NULL THEN NULL ELSE Dangling
    /\ freedTwice' = (freedTwice \/ surface = Dangling)
    /\ pc' = "idle" /\ UNCHANGED mapped

-----------------------------------------------------------------------------
(* gr_init                                                                 *)

\* tty0 need not be there; if it is it has to become a graphics console.
OpenConsole ==
    /\ pc = "idle" /\ ~up /\ ~freedTwice
    /\ \/ fds' = fds \cup {"vt"} /\ tty' = "graphics" /\ pc' = "framebuffer"
       \/ pc' = "framebuffer" /\ UNCHANGED <<fds, tty>>
       \/ pc' = "fail" /\ fds' = fds \cup {"vt"} /\ UNCHANGED tty
    /\ UNCHANGED <<up, again, kept, memory, screen>>

\* Fault: a framebuffer that cannot be had ends gr_init without gr_exit.
FramebufferLeavesConsole ==
    /\ pc = "framebuffer"
    /\ \/ /\ mapped < MaxMappings /\ mapped' = mapped + 1
          /\ fds' = fds \cup {"fb"} /\ gr_framebuffer' = [n \in 0..1 |-> Blank]
          /\ last' = <<Blank, Blank>> /\ pc' = "surface"
       \/ pc' = "idle" /\ UNCHANGED <<mapped, fds, gr_framebuffer, last>>
    /\ UNCHANGED <<up, again, tty, kept, surface, freedTwice, gr_active_fb, shown, refused>>

\* Each error closes the file again.  Both buffers are cleared, whichever is shown.
get_framebuffer ==
    /\ pc = "framebuffer"
    /\ \/ /\ mapped < MaxMappings /\ mapped' = mapped + 1
          /\ fds' = fds \cup {"fb"} /\ gr_framebuffer' = [n \in 0..1 |-> Blank]
          /\ last' = <<Blank, Blank>> /\ pc' = "surface"
       \/ pc' = "fail" /\ UNCHANGED <<mapped, fds, gr_framebuffer, last>>
    /\ UNCHANGED <<up, again, tty, kept, surface, freedTwice, gr_active_fb, shown, refused>>

\* Both failures of gr_init call gr_exit.
InitFails ==
    /\ pc = "fail"
    /\ gr_exit
    /\ UNCHANGED <<up, again, screen>>

\* Nobody looks whether there was memory.
get_memory_surface ==
    /\ pc = "surface"
    /\ surface' \in {Garbage, NULL}
    /\ gr_active_fb' = 0
    /\ pc' = "start"
    /\ UNCHANGED <<up, again, console, freedTwice, mapped, gr_framebuffer, shown, refused, last>>

\* The driver is asked; what it answers is printed only.
set_active_framebuffer(n) ==
    \/ shown' = n /\ refused' = FALSE
    \/ refused' = TRUE /\ UNCHANGED shown

StartScreen ==
    /\ pc = "start"
    /\ set_active_framebuffer(gr_active_fb)
    /\ up' = TRUE /\ pc' = "idle"
    /\ UNCHANGED <<again, console, memory, gr_framebuffer, gr_active_fb, last>>

-----------------------------------------------------------------------------
(* Drawing, gr_flip, gr_exit                                               *)

Draw ==
    /\ pc = "idle" /\ up /\ surface # NULL
    /\ surface' \in Pictures
    /\ UNCHANGED <<pc, up, again, console, freedTwice, mapped, screen>>

\* Without memory the first drawing, or the copy of gr_flip, ends the program.
NoSurface ==
    /\ pc = "idle" /\ up /\ surface = NULL
    /\ pc' = "crashed"
    /\ UNCHANGED <<up, again, console, memory, screen>>

\* Fault: the buffers are not swapped.
FlipKeepsTarget ==
    /\ pc = "idle" /\ up /\ surface # NULL
    /\ gr_framebuffer' = [gr_framebuffer EXCEPT ![gr_active_fb] = Garbage]
    /\ pc' = "copy"
    /\ UNCHANGED <<up, again, console, memory, gr_active_fb, shown, refused, last>>

gr_flip ==
    /\ pc = "idle" /\ up /\ surface # NULL
    /\ gr_active_fb' = (gr_active_fb + 1) % 2
    /\ gr_framebuffer' = [gr_framebuffer EXCEPT ![gr_active_fb'] = Garbage]
    /\ pc' = "copy"
    /\ UNCHANGED <<up, again, console, memory, shown, refused, last>>

Copied ==
    /\ pc = "copy"
    /\ gr_framebuffer' = [gr_framebuffer EXCEPT ![gr_active_fb] = surface]
    /\ last' = <<surface, last[1]>>
    /\ pc' = "swap"
    /\ UNCHANGED <<up, again, console, memory, gr_active_fb, shown, refused>>

Swap ==
    /\ pc = "swap"
    /\ set_active_framebuffer(gr_active_fb)
    /\ pc' = "idle"
    /\ UNCHANGED <<up, again, console, memory, gr_framebuffer, gr_active_fb, last>>

Exit ==
    /\ pc = "idle" /\ up
    /\ gr_exit
    /\ up' = FALSE /\ again' = TRUE
    /\ UNCHANGED screen

Next ==
    \/ OpenConsole \/ get_framebuffer \/ InitFails \/ get_memory_surface \/ StartScreen
    \/ Draw \/ NoSurface \/ gr_flip \/ Copied \/ Swap \/ Exit

Spec == Init /\ [][Next]_vars

-----------------------------------------------------------------------------
(* Properties                                                              *)

\* The screen is never more than one flip behind, whichever swaps the driver
\* refuses, and not behind at all if it took the last one: a refused swap makes
\* the next flip write into the buffer that is shown.  Only then is a picture seen
\* while it is being copied.
ScreenFollows ==
    /\ pc = "idle" /\ up =>
          /\ gr_framebuffer[shown] \in {last[1], last[2]}
          /\ ~refused => gr_framebuffer[shown] = last[1]
    /\ pc = "copy" /\ ~refused => gr_active_fb # shown

\* Without a session no file is open and no surface allocated, wherever gr_init
\* failed, and the console is in text mode unless the driver would not set it when
\* it was closed, whatever later sessions without a console did; and the surface is
\* freed twice only by a gr_init that fails after an earlier session, whose pointer
\* gr_exit has kept.  The mappings of the framebuffer are not given back.
GivenBack ==
    /\ pc = "idle" /\ ~up =>
          fds = {} /\ surface \notin Owned /\ (tty = "graphics" => kept)
    /\ freedTwice => again

-----------------------------------------------------------------------------
(* The inductive invariant                                                 *)

\* What a buffer of memory can hold.
Contents == Pictures \cup {Blank, Garbage, NULL, Dangling}

TypeOK ==
    /\ pc \in {"idle", "framebuffer", "surface", "start", "fail", "copy", "swap", "crashed"}
    /\ up \in BOOLEAN /\ refused \in BOOLEAN /\ tty \in {"text", "graphics"}
    /\ fds \subseteq {"vt", "fb"} /\ mapped \in 0..MaxMappings
    /\ surface \in Contents
    /\ gr_framebuffer \in [0..1 -> Contents]
    /\ gr_active_fb \in 0..1 /\ shown \in 0..1
    /\ last \in Contents \X Contents

Other(n) == (n + 1) % 2

\* The two buffers hold the last two pictures, the one before in the buffer that
\* the next flip writes; whichever of them is shown, it is the newer one if the
\* driver took the last swap.
Buffers ==
    /\ pc \in {"surface", "start"} =>
          \A n \in 0..1 : gr_framebuffer[n] = last[1] /\ last[2] = last[1]
    /\ pc = "swap" \/ (pc = "idle" /\ up) =>
          /\ gr_framebuffer[gr_active_fb] = last[1]
          /\ gr_framebuffer[Other(gr_active_fb)] = last[2]
    /\ pc = "copy" => gr_framebuffer[Other(gr_active_fb)] = last[1]
    /\ ~refused /\ pc = "idle" /\ up => shown = gr_active_fb
    /\ ~refused /\ pc = "copy" => shown = Other(gr_active_fb)

\* What gr_exit relies on: whether the console was opened, and what the pointer of
\* the surface is worth.
Session ==
    /\ up => pc \in {"idle", "copy", "swap", "crashed"} /\ surface \in Owned \cup {NULL}
    /\ pc \in {"copy", "swap", "crashed"} => up
    /\ pc = "start" => surface \in {Garbage, NULL}
    /\ ~up /\ pc # "start" => surface \in {NULL, Dangling}
    /\ "vt" \notin fds /\ tty = "graphics" => kept
    /\ ~up /\ pc = "idle" => fds = {}
    /\ surface = Dangling \/ freedTwice => again

IInv == TypeOK /\ Buffers /\ Session

=============================================================================
