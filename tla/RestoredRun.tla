---------------------------- MODULE RestoredRun -----------------------------
(***************************************************************************)
(* A monitor restored from a state card that no monitor of this code need  *)
(* have written, and what happens to it afterwards: its duties may carry   *)
(* any names and may have been triggered at one tick.  restore_open_state_ *)
(* card validates the card and places its table; then events come, with    *)
(* triggers among them, that make the alias counter go on.                 *)
(*                                                                         *)
(* A second monitor is restored from the same card under other names and   *)
(* is given the same events.                                               *)
(***************************************************************************)
EXTENDS TwoMonitors

CONSTANTS
  Entries,       \* rows a table may have: [trigger_tick, deadline]
  Names,         \* aliases a card may use; "oN" is the number N
  Unnumbered,    \* those that are not of that form, as numbers apart
  Clocks         \* current_tick arguments

ASSUME NamesAssumption == Names \subseteq Nat \ {0} /\ Unnumbered \subseteq Names
ASSUME EntriesAssumption == Entries \subseteq [trigger_tick : Nat, deadline : Nat]
ASSUME ClocksAssumption == Clocks \subseteq Nat \cup {-1}

\* Up to two rows, each with its alias.
Tables == {<<>>} \cup [{1} -> Entries] \cup [{1, 2} -> Entries]
Namings(table) ==
  {f \in [DOMAIN table -> Names] : \A i, j \in DOMAIN table : f[i] = f[j] => i = j}

VARIABLE card    \* the card, for the first monitor

-----------------------------------------------------------------------------
\* Deviation: a duty whose deadline is the clock's reading is let in.
ValidCard_DueNow(c) ==
  /\ \A i \in DOMAIN c.table :
       /\ c.table[i].trigger_tick <= c.current_tick
       /\ c.table[i].deadline >= c.current_tick
       /\ c.table[i].deadline = c.table[i].trigger_tick + Bound
  /\ c.table # <<>> => c.guard = "T"

\* Every duty is live at the clock and due when the clause says.
ValidCard(c) ==
  /\ \A i \in DOMAIN c.table :
       /\ c.table[i].trigger_tick <= c.current_tick
       /\ c.table[i].deadline > c.current_tick
       /\ c.table[i].deadline = c.table[i].trigger_tick + Bound
  /\ c.table # <<>> => c.guard = "T"

\* The ledger a table stands for under a naming.
Placed(table, naming) ==
  [a \in {naming[i] : i \in DOMAIN table} |->
     LET i == CHOOSE i \in DOMAIN table : naming[i] = a
     IN  NewOccurrence(table[i].trigger_tick, table[i].deadline, "Open")]

\* Deviation: numbering starts again.
Numbered_Restart(naming) == 0

\* The counter restarts at the largest number among the names.
Numbered(naming) ==
  LET numbers == {naming[i] : i \in DOMAIN naming} \ Unnumbered
  IN  IF numbers = {} THEN 0 ELSE CHOOSE m \in numbers : \A k \in numbers : k <= m

CardInit ==
  /\ Init /\ Twin!Init
  /\ phase = "Card"
  /\ \E table \in Tables, guard \in K3, now \in Clocks :
       \E naming \in Namings(table) :
         card = [table |-> table, guard |-> guard, current_tick |-> now,
                 naming |-> naming]

Restore(naming) ==
  /\ phase = "Card"
  /\ UNCHANGED card
  /\ IF ~ ValidCard(card) THEN phase' = "Refused" /\ UNCHANGED <<vars, t_vars>>
     ELSE /\ phase' = "Live"
          /\ tick' = card.current_tick /\ t_tick' = tick'
          /\ epistemic' = [epistemic EXCEPT ![GuardKey] = card.guard]
          /\ t_epistemic' = epistemic'
          /\ occurrences' = Placed(card.table, card.naming)
          /\ t_occurrences' = Placed(card.table, naming)
          /\ oid_counter' = Numbered(card.naming)
          /\ t_oid_counter' = Numbered(naming)
          /\ UNCHANGED <<mode, terminal_kind, fault, consumed, diagnostic, t_mode,
                         t_terminal_kind, t_fault, t_consumed, t_diagnostic>>

Live(e) ==
  /\ phase = "Live" /\ mode = "Running"
  /\ Step(e) /\ Twin!Step(e)
  /\ UNCHANGED <<phase, card>>

CardNext ==
  \/ \E naming \in Namings(card.table) : Restore(naming)
  \/ \E e \in Event : Live(e)

CardSpec == CardInit /\ [][CardNext]_<<vars, t_vars, phase, card>>

-----------------------------------------------------------------------------
\* How many duties have each record.
Bag(occs) ==
  [o \in {occs[i] : i \in DOMAIN occs} |-> Cardinality({i \in DOMAIN occs : occs[i] = o})]

\* Names decide nothing.  Whatever a card calls its duties, and so whichever of
\* two duties triggered at one tick comes first in the canonical order, the
\* verdict is the same and so are the duties and what became of them.
NamesDecideNothing ==
  phase = "Live" =>
    /\ Summary = Twin!Summary /\ PublicMode = Twin!PublicMode
    /\ fault = t_fault /\ consumed = t_consumed
    /\ Bag(occurrences) = Bag(t_occurrences)

\* Numbering goes on where the card stopped: no event after the restore gives a
\* new duty a name in use, nor a number at or below one the card or an earlier
\* event used, and none changes a duty's trigger or deadline.
NumberingGoesOn ==
  [][phase = "Live" =>
       /\ \A i \in Duties :
            /\ i \in DOMAIN occurrences'
            /\ occurrences'[i].trigger_tick = occurrences[i].trigger_tick
            /\ occurrences'[i].deadline = occurrences[i].deadline
       /\ \A new \in DOMAIN occurrences' \ Duties, i \in Duties \ Unnumbered : new > i
    ]_occurrences

\* A card that passes validation is a state the monitor could be in as far as
\* its verdicts go: what holds of every monitor's ledger holds of it ever after.
CardsAreLegal ==
  phase = "Live" => LedgerSound /\ LinearTokens

=============================================================================
