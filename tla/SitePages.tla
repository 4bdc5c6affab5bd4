------------------------------ MODULE SitePages ------------------------------
(***************************************************************************)
(* Pages that are read in several steps: the chat page and the paged       *)
(* lists.  They share nothing, so an execution takes one of them and       *)
(* leaves the other as it began.                                           *)
(***************************************************************************)
EXTENDS ChatPage

CONSTANTS
  MaxRows, MaxEvents,   \* Listing
  MaxActivity           \* bound: messages and decisions together, in an
                        \* execution in which the page is opened

ASSUME RowsAssumption == MaxRows \in Nat

VARIABLES list, listed, created, reader, shown, standing, left, moved, late   \* Listing

Lists == INSTANCE Listing

listVars == <<list, listed, created, reader, shown, standing, left, moved, late>>

PagesInit == Init /\ Lists!Init

\* Decisions do not look at pages: as long as none is open there may be more.
Bounded == stamped + clock <= MaxActivity \/ \A p \in Tabs : tab[p] = Closed

PagesNext ==
  \/ Next /\ Bounded' /\ Lists!Init /\ UNCHANGED listVars
  \/ Init /\ Lists!Next /\ UNCHANGED vars

PagesSpec == PagesInit /\ [][PagesNext]_<<vars, listVars>>

\* The properties of the module that is composed by INSTANCE: see there.
WalkIsAccounted == Lists!WalkIsAccounted
OldestTransfersExact == Lists!OldestTransfersExact
=============================================================================
