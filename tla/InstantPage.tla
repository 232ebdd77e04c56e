------------------------------ MODULE InstantPage ------------------------------
(***************************************************************************)
(* instant.page 1.1.0: the link under the pointer is prefetched after      *)
(* 65 ms, the one under a finger at once, and the prefetch is dropped when *)
(* pointer or finger goes.  For 1100 ms after a touch the mouse is ignored:*)
(* browsers make up mouse events for touches.                              *)
(***************************************************************************)
EXTENDS Naturals, FiniteSets

CONSTANTS Links,       \* the links of the page
          Preloadable, \* those whose address isPreloadable allows
          NoLink

VARIABLES urlToPreload,   \* the link that was preloaded, or is about to be
          mouseoverTimer, \* the timer the script knows, by its link
          timers,         \* the timers that run
          prefetched,     \* href of the prefetcher
          touched,        \* lastTouchTimestamp is less than 1100 ms ago
          over,           \* the link under the pointer
          finger,         \* the link under the finger
          onMouseout,     \* links with the mouseout listener
          onTouchend      \* links with the touchend and touchcancel listener

instantVars == <<urlToPreload, mouseoverTimer, timers, prefetched, touched, over, finger,
                 onMouseout, onTouchend>>

ASSUME InstantAssumption == Preloadable \subseteq Links /\ NoLink \notin Links

SomeLink == Links \cup {NoLink}

InstantTypeOK ==
  /\ urlToPreload \in Preloadable \cup {NoLink}
  /\ prefetched \in Preloadable \cup {NoLink}
  /\ mouseoverTimer \in Preloadable \cup {NoLink}
  /\ timers \subseteq Preloadable
  /\ touched \in BOOLEAN
  /\ over \in SomeLink /\ finger \in SomeLink
  /\ onMouseout \subseteq Preloadable /\ onTouchend \subseteq Preloadable
  /\ timers = IF mouseoverTimer = NoLink THEN {} ELSE {mouseoverTimer}

InitInstant ==
  /\ urlToPreload = NoLink /\ prefetched = NoLink
  /\ mouseoverTimer = NoLink /\ timers = {}
  /\ touched = FALSE
  /\ over = NoLink /\ finger = NoLink
  /\ onMouseout = {} /\ onTouchend = {}
--------------------------------------------------------------------------------
IsPreloadable(l) == l # urlToPreload /\ l \in Preloadable

\* urlToPreload = undefined; stopPreloading()
Dropped == urlToPreload' = NoLink /\ prefetched' = NoLink

\* No finger comes within 65 ms after the mouse reached a link.
TouchStart(l) ==
  /\ finger = NoLink
  /\ timers = {}
  /\ finger' = l
  /\ touched' = TRUE
  /\ IF IsPreloadable(l)
     THEN /\ onTouchend' = onTouchend \cup {l}
          /\ urlToPreload' = l
          /\ prefetched' = l
     ELSE UNCHANGED <<onTouchend, urlToPreload, prefetched>>
  /\ UNCHANGED <<mouseoverTimer, timers, over, onMouseout>>

\* touchend and touchcancel
TouchEnd ==
  /\ finger # NoLink
  /\ finger' = NoLink
  /\ IF finger \in onTouchend THEN Dropped ELSE UNCHANGED <<urlToPreload, prefetched>>
  /\ UNCHANGED <<mouseoverTimer, timers, touched, over, onMouseout, onTouchend>>

Listening_Never(l) == onMouseout \* mutant: the listener is not added

Listening(l) == onMouseout \cup {l}

\* mouseoverListener
Hover(l) ==
  IF ~touched /\ IsPreloadable(l)
  THEN /\ onMouseout' = Listening(l)
       /\ urlToPreload' = l
       /\ mouseoverTimer' = l
       /\ timers' = timers \cup {l}
  ELSE UNCHANGED <<onMouseout, urlToPreload, mouseoverTimer, timers>>

\* While a finger is down there are only the mouse events made up for it, soon after.
LinkMouseOver(l) ==
  /\ over = NoLink
  /\ finger = NoLink \/ touched
  /\ over' = l
  /\ Hover(l)
  /\ UNCHANGED <<prefetched, touched, finger, onTouchend>>

\* To a child of the same link, or back: mouseout returns early and mouseover does not.
MouseMoves ==
  /\ over # NoLink
  /\ finger = NoLink \/ touched
  /\ Hover(over)
  /\ UNCHANGED <<prefetched, touched, over, finger, onTouchend>>

MouseOut ==
  /\ over # NoLink
  /\ over' = NoLink
  /\ IF over \notin onMouseout
     THEN UNCHANGED <<urlToPreload, prefetched, mouseoverTimer, timers>>
     ELSE IF mouseoverTimer # NoLink
     THEN /\ timers' = timers \ {mouseoverTimer}
          /\ mouseoverTimer' = NoLink
          /\ UNCHANGED <<urlToPreload, prefetched>>
     ELSE Dropped /\ UNCHANGED <<mouseoverTimer, timers>>
  /\ UNCHANGED <<touched, finger, onMouseout, onTouchend>>

TimerEnds(l) ==
  /\ l \in timers
  /\ timers' = timers \ {l}
  /\ prefetched' = l
  /\ mouseoverTimer' = NoLink
  /\ UNCHANGED <<urlToPreload, touched, over, finger, onMouseout, onTouchend>>

\* 1100 ms since the last touch; timers set before it ended long ago.
TouchForgotten ==
  /\ touched
  /\ timers = {}
  /\ touched' = FALSE
  /\ UNCHANGED <<urlToPreload, mouseoverTimer, timers, prefetched, over, finger, onMouseout,
                 onTouchend>>

NextInstant ==
  \/ \E l \in Links : TouchStart(l) \/ LinkMouseOver(l) \/ TimerEnds(l)
  \/ TouchEnd \/ MouseMoves \/ MouseOut \/ TouchForgotten
--------------------------------------------------------------------------------
\* Nothing is prefetched when neither pointer nor finger is on a link: what a timer or a
\* touch began is dropped, in whatever order touches, made-up mouse events and timers come.
NothingPrefetchedIdly ==
  over = NoLink /\ finger = NoLink => prefetched = NoLink
================================================================================
