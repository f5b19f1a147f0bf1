--------------------------- MODULE S51Interrupt ---------------------------
(***************************************************************************)
(* The interrupt system of the simulated 8051                              *)
(* (sim/ucsim/s51.src/interrupt.cc, uc51.cc, jmp.cc).  One turn of the     *)
(* loop in do_inst is two steps: the instruction with the hardware tick    *)
(* that follows it (phase "inst"), and do_interrupt with idle_pd (phase    *)
(* "check").  The simulated program may execute any sequence of            *)
(* instructions of the given kinds; RETI is used to leave a service        *)
(* routine.  Port events can raise an external request between two turns.  *)
(***************************************************************************)
EXTENDS Naturals, Sequences, SequencesExt

CONSTANTS
  it_sources,    \* the sources in poll order
  SelfClearing,  \* the sources whose request the acceptance clears (clr_bit)
  External,      \* the sources that port events raise
  Timer,         \* the source of the timer that is modelled
  Period,        \* the turns between two overflows of the timer
  Kinds          \* what the program's instructions do, besides "other" and "reti"

Sources == Range(it_sources)

ASSUME S51Assumption ==
  /\ it_sources \in Seq(Sources) /\ IsInjective(it_sources)
  /\ SelfClearing \subseteq Sources /\ External \subseteq Sources
  /\ Timer \in Sources \ External
  /\ Period \in Nat \ {0}
  /\ Kinds \subseteq {"ie_byte", "ie_bit", "ip", "request", "idle", "power_down"}

VARIABLES
  EA, IE, IP,       \* enable and priority bits, one per source
  idl, pd,          \* the IDL and PD bits of PCON
  requests,         \* the sources whose request flag is set
  it_levels,        \* the services under way, above the bottom entry of level -1
  was_reti,
  state,            \* "go", "idle" or "pd"
  phase,
  left              \* turns until the timer overflows

sfr == <<EA, IE, IP, idl, pd, requests>>
vars == <<EA, IE, IP, idl, pd, requests, it_levels, was_reti, state, phase, left>>

\* priority_of: 0 or 1, from the bit in IP
priority_of(s) == IF s \in IP THEN 1 ELSE 0

\* The entry of it_levels for an accepted source
Service(s) == [level |-> priority_of(s), source |-> s]
Services == [level : 0 .. 1, source : Sources]

\* A level that is not there is -1, here below every level.
Above(level) == it_levels # << >> => level > Last(it_levels).level

\* Reset leaves the ports high, so no external request is pending.
Init ==
  /\ EA = FALSE /\ IE = {} /\ IP = {}
  /\ idl = FALSE /\ pd = FALSE
  /\ requests = {}
  /\ it_levels = << >>
  /\ was_reti = FALSE
  /\ state = "go" /\ phase = "inst"
  /\ left = Period - 1

-----------------------------------------------------------------------------
(* The instruction and the hardware tick.                                  *)

\* [mutant] The timer is reloaded with one too many.
tick_hw_Late(kept) ==
  /\ left' = IF left = 0 THEN Period ELSE left - 1
  /\ \E raised \in SUBSET (Sources \ {Timer}) :
       requests' = kept \cup raised \cup (IF left = 0 THEN {Timer} ELSE {})

\* tick_hw: the timer counts, any other on-chip source may raise its request.
\* kept are the requests the instruction leaves set.
tick_hw(kept) ==
  /\ left' = IF left = 0 THEN Period - 1 ELSE left - 1
  /\ \E raised \in SUBSET (Sources \ {Timer}) :
       requests' = kept \cup raised \cup (IF left = 0 THEN {Timer} ELSE {})

\* exec_inst of an instruction; was_reti is cleared before it.
Executes(reti) ==
  /\ phase = "inst" /\ state = "go"
  /\ was_reti' = reti
  /\ phase' = "check"
  /\ UNCHANGED state

Other ==
  /\ Executes(FALSE)
  /\ tick_hw(requests)
  /\ UNCHANGED <<EA, IE, IP, idl, pd, it_levels>>

\* The program sets or clears request flags.
WriteRequests ==
  /\ "request" \in Kinds
  /\ Executes(FALSE)
  /\ \E s \in Sources : tick_hw(requests \ {s}) \/ tick_hw(requests \cup {s})
  /\ UNCHANGED <<EA, IE, IP, idl, pd, it_levels>>

\* A byte write to IE; cl_interrupt::write is called.
WriteIE ==
  /\ "ie_byte" \in Kinds
  /\ Executes(TRUE)
  /\ EA' \in BOOLEAN /\ IE' \in SUBSET Sources
  /\ tick_hw(requests)
  /\ UNCHANGED <<IP, idl, pd, it_levels>>

\* A bit write to IE goes through the bit space, whose cells know nothing of
\* cl_interrupt's handler on the byte.
WriteIEBit ==
  /\ "ie_bit" \in Kinds
  /\ Executes(FALSE)
  /\ \/ EA' \in BOOLEAN /\ UNCHANGED IE
     \/ \E s \in Sources : IE' \in {IE \cup {s}, IE \ {s}} /\ UNCHANGED EA
  /\ tick_hw(requests)
  /\ UNCHANGED <<IP, idl, pd, it_levels>>

WriteIP ==
  /\ Executes(FALSE)
  /\ "ip" \in Kinds
  /\ IP' \in SUBSET Sources
  /\ tick_hw(requests)
  /\ UNCHANGED <<EA, IE, idl, pd, it_levels>>

WritePCON ==
  /\ Executes(FALSE)
  /\ \/ "idle" \in Kinds /\ idl' = TRUE /\ UNCHANGED pd
     \/ "power_down" \in Kinds /\ pd' = TRUE /\ UNCHANGED idl
  /\ tick_hw(requests)
  /\ UNCHANGED <<EA, IE, IP, it_levels>>

\* [mutant] RETI does not hold off the next acceptance.
Reti_Open ==
  /\ it_levels # << >>
  /\ Executes(FALSE)
  /\ it_levels' = Front(it_levels)
  /\ tick_hw(requests)
  /\ UNCHANGED <<EA, IE, IP, idl, pd>>

Reti ==
  /\ it_levels # << >>
  /\ Executes(TRUE)
  /\ it_levels' = Front(it_levels)
  /\ tick_hw(requests)
  /\ UNCHANGED <<EA, IE, IP, idl, pd>>

\* In idle mode only the time counters advance: tick does not call tick_hw.
IdleTick ==
  /\ phase = "inst" /\ state = "idle"
  /\ phase' = "check"
  /\ UNCHANGED <<sfr, it_levels, was_reti, state, left>>

\* A port event between two turns.
PortEvent ==
  /\ phase = "inst"
  /\ \E s \in External \ requests : requests' = requests \cup {s}
  /\ UNCHANGED <<EA, IE, IP, idl, pd, it_levels, was_reti, state, phase, left>>

\* The reset command, which ends power down too; clear_sfr writes IE.
Reset ==
  /\ phase = "inst"
  /\ EA' = FALSE /\ IE' = {} /\ IP' = {}
  /\ idl' = FALSE /\ pd' = FALSE
  /\ requests' = {} /\ it_levels' = << >>
  /\ was_reti' = TRUE
  /\ state' = "go"
  /\ UNCHANGED <<phase, left>>

-----------------------------------------------------------------------------
(* do_interrupt and idle_pd.                                               *)

\* [mutant] A request of the same level gets through.
Eligible_SameLevel(s) ==
  /\ s \in IE /\ s \in requests
  /\ it_levels # << >> => priority_of(s) >= Last(it_levels).level

\* is_active is left out: only timer 2 ever switches a source of its off (timer2.cc:133),
\* and that one has no request of its own here.
Eligible(s) == s \in IE /\ s \in requests /\ Above(priority_of(s))

\* [mutant] The search ends at the first request, eligible or not.
IsFirst_Only(k) ==
  /\ Eligible(it_sources[k])
  /\ \A j \in 1 .. k - 1 : ~(it_sources[j] \in IE /\ it_sources[j] \in requests)

\* it_sources[k] is the source the poll finds.
IsFirst(k) ==
  /\ Eligible(it_sources[k])
  /\ \A j \in 1 .. k - 1 : ~Eligible(it_sources[j])

Accepts(s) == ~was_reti /\ EA /\ \E k \in DOMAIN it_sources : IsFirst(k) /\ it_sources[k] = s

\* accept_it for the source s
accept_it(s) ==
  /\ phase = "check" /\ state # "idle"
  /\ Accepts(s)
  /\ requests' = requests \ ({s} \cap SelfClearing)
  /\ it_levels' = Append(it_levels, Service(s))
  /\ state' = "go" /\ idl' = FALSE
  /\ phase' = "inst"
  /\ UNCHANGED <<EA, IE, IP, pd, was_reti, left>>

\* [mutant] The request is cleared before the test for idle mode.
Wake_Clears ==
  /\ phase = "check" /\ state = "idle"
  /\ \E s \in Sources : Accepts(s) /\ requests' = requests \ ({s} \cap SelfClearing)
  /\ idl' = FALSE /\ was_reti' = TRUE
  /\ state' = IF pd THEN "pd" ELSE "go"
  /\ phase' = "inst"
  /\ UNCHANGED <<EA, IE, IP, pd, it_levels, left>>

\* [mutant] PCON.IDL stays set and idle_pd enters idle mode again.
Wake_StaysIdle ==
  /\ phase = "check" /\ state = "idle"
  /\ \E s \in Sources : Accepts(s)
  /\ was_reti' = TRUE
  /\ phase' = "inst"
  /\ UNCHANGED <<sfr, it_levels, state, left>>

\* A request ends idle mode; it is accepted after the next instruction.
Wake ==
  /\ phase = "check" /\ state = "idle"
  /\ \E s \in Sources : Accepts(s)
  /\ idl' = FALSE /\ was_reti' = TRUE
  /\ state' = IF pd THEN "pd" ELSE "go"
  /\ phase' = "inst"
  /\ UNCHANGED <<EA, IE, IP, pd, requests, it_levels, left>>

\* Nothing is accepted, and idle_pd is called.
NoInterrupt ==
  /\ phase = "check"
  /\ \A s \in Sources : ~Accepts(s)
  /\ was_reti' = FALSE
  /\ state' = CASE pd -> "pd" [] idl /\ ~pd -> "idle" [] OTHER -> state
  /\ phase' = "inst"
  /\ UNCHANGED <<sfr, it_levels, left>>

do_interrupt == (\E s \in Sources : accept_it(s)) \/ Wake \/ NoInterrupt

-----------------------------------------------------------------------------
Instruction == Other \/ WriteRequests \/ WriteIE \/ WriteIEBit \/ WriteIP \/ WritePCON \/ Reti

Turn == Instruction \/ IdleTick \/ do_interrupt

Next == Turn \/ PortEvent \/ Reset

Spec == Init /\ [][Next]_vars

\* The simulator runs on, and the program's service routines come to their end.
FairSpec ==
  /\ Spec
  /\ WF_vars(Turn)
  /\ \A n \in 1 .. 2 : SF_vars(Len(it_levels) = n /\ Reti)

\* ... and neither the program nor a service routine at the lower level does
\* nothing but RETI and writes to the registers of the interrupt system.
LongServices == FairSpec /\ \A n \in 0 .. 1 : SF_vars(Len(it_levels) = n /\ Other)

-----------------------------------------------------------------------------
(* Properties.                                                             *)

TypeOK ==
  /\ EA \in BOOLEAN /\ IE \subseteq Sources /\ IP \subseteq Sources
  /\ idl \in BOOLEAN /\ pd \in BOOLEAN /\ requests \subseteq Sources
  /\ it_levels \in Seq(Services)
  /\ was_reti \in BOOLEAN
  /\ state \in {"go", "idle", "pd"} /\ phase \in {"inst", "check"}
  /\ left \in 0 .. Period - 1

\* A service routine is interrupted only by one of a higher level, whatever the
\* program does to IP meanwhile, so at most two are ever under way (each costs
\* the simulated stack a return address).
NestedByLevel ==
  /\ \A i, j \in 1 .. Len(it_levels) : i < j => it_levels[i].level < it_levels[j].level
  /\ Len(it_levels) <= 2

\* Looking for an interrupt takes back no request but the one that is accepted
\* by it; in particular a request that only ends idle mode is still there.
RequestsKept ==
  [][phase = "check" =>
       \A s \in requests \ requests' :
         Len(it_levels') > Len(it_levels) /\ Last(it_levels').source = s]_vars

\* However many requests there are, the interrupted program gets to execute an
\* instruction again (RETI and one more, not RETI and the next service), unless a
\* service routine has stopped the CPU.
MainGetsOn ==
  it_levels # << >> ~> (it_levels = << >> /\ phase = "inst") \/ state # "go"

\* A request of the higher level gets through to its service although the poll
\* comes to sources of the lower level first, provided that the routines of the
\* lower level do more than return: do_interrupt takes the first source it finds
\* and leaves it to the next turn to interrupt that.
HighWaits(s) == EA /\ s \in IE /\ s \in IP /\ s \in requests
HighServed ==
  \A s \in Sources :
    HighWaits(s) ~> ~HighWaits(s) \/ state = "pd" \/ \E k \in 1 .. Len(it_levels) : it_levels[k].level = 1

\* A request that could be served does not leave the CPU in idle mode.
IdleEnds ==
  state = "idle" /\ EA /\ (\E s \in Sources : Eligible(s)) ~> state # "idle"

\* uc51.cc:1743 "tick hw in idle state": a timer whose interrupt is enabled ends
\* idle mode sooner or later.
TimerEndsIdle == state = "idle" /\ EA /\ Timer \in IE /\ it_levels = << >> ~> state # "idle"

=============================================================================
