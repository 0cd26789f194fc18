------------------------------- MODULE Orders -------------------------------
(***************************************************************************)
(* The order program of design_patterns/finial: an order with its states,  *)
(* the shop's checkout with validation and payment, and the command that   *)
(* runs it once and undoes it.  An exception leaves everything as it was   *)
(* when it was thrown.  The gateway can take money and has no call that    *)
(* gives it back: cancelling a paid order only announces a refund.         *)
(***************************************************************************)
EXTENDS Naturals, Sequences

VARIABLES
    valid,          \* the order passes the validators
    state,          \* state_ of the order
    pricing,        \* pricing_ of the order
    command,        \* [pricing, executed] of CheckoutCommand
    charged,        \* how often the gateway has taken the money
    notices,        \* what the observers were told
    tries,          \* history: calls of checkout that got past validation
    crashed         \* a strategy was used through a null pointer

vars == <<valid, state, pricing, command, charged, notices, tries, crashed>>

Init ==
    /\ valid \in BOOLEAN
    /\ state = "draft" /\ pricing = "regular"
    /\ command = [pricing |-> "vip", executed |-> FALSE]
    /\ charged = 0 /\ notices = <<>> /\ tries = 0 /\ crashed = FALSE

\* The transitions of the states; every other call throws.
After(call, s) ==
    CASE call = "submit" /\ s = "draft" -> "awaiting"
      [] call = "pay" /\ s = "awaiting" -> "paid"
      [] call = "ship" /\ s = "paid" -> "shipped"
      [] call = "cancel" /\ s \in {"draft", "awaiting", "paid"} -> "cancelled"
      [] OTHER -> "throws"

\* checkout once the validators have passed: the order takes the command's
\* strategy, is submitted, and is paid or cancelled as the gateway answers.
checkout(accepts) ==
    /\ tries' = tries + 1
    /\ pricing' = command.pricing
    /\ \/ /\ command.pricing = "null"
          /\ crashed' = TRUE
          /\ command' = [command EXCEPT !.pricing = "null"]
          /\ UNCHANGED <<state, charged, notices>>
       \/ /\ command.pricing # "null" /\ After("submit", state) = "throws"
          /\ command' = [command EXCEPT !.pricing = "null"]
          /\ UNCHANGED <<state, charged, notices, crashed>>
       \/ /\ command.pricing # "null" /\ After("submit", state) # "throws"
          /\ LET awaiting == After("submit", state)
                 final == After(IF accepts THEN "pay" ELSE "cancel", awaiting)
             IN  state' = final /\ notices' = notices \o <<awaiting, final>>
          /\ charged' = IF accepts THEN charged + 1 ELSE charged
          /\ command' = [pricing |-> "null", executed |-> accepts]
          /\ UNCHANGED crashed
    /\ UNCHANGED valid

execute(accepts) ==
    /\ ~crashed /\ ~command.executed /\ valid /\ tries < 2
    /\ checkout(accepts)

\* A validator throws with the strategy already moved into the argument of
\* checkout, which is destroyed.
ExecuteInvalid ==
    /\ ~crashed /\ ~command.executed /\ ~valid /\ command.pricing # "null"
    /\ command' = [command EXCEPT !.pricing = "null"]
    /\ UNCHANGED <<valid, state, pricing, charged, notices, tries, crashed>>

\* A call from outside checkout changes the state and tells the observers; cancel of
\* a paid order prints that the money will be returned, and returns none.
Moves(call) ==
    /\ ~crashed /\ After(call, state) # "throws"
    /\ state' = After(call, state)
    /\ notices' = Append(notices, state')
    /\ UNCHANGED <<valid, pricing, charged, tries, crashed>>

ship == Moves("ship") /\ UNCHANGED command
cancel == Moves("cancel") /\ UNCHANGED command

undo ==
    /\ command.executed /\ Moves("cancel")
    /\ command' = [command EXCEPT !.executed = FALSE]

Next == (\E accepts \in BOOLEAN : execute(accepts)) \/ ExecuteInvalid \/ ship \/ cancel \/ undo

-----------------------------------------------------------------------------
\* Whatever is executed, refused, undone or tried again: the money is taken at
\* most once, and it is taken if and only if the observers are told that the
\* order is paid, so it is taken from a paid or shipped order and from one that
\* was cancelled after payment, and from no other; an order outside a checkout
\* does not await payment; the observers were told the state it is in; a
\* command that has been executed is not repeatable; and only a second checkout
\* can crash.
Correct ==
    /\ charged <= 1
    /\ charged = 1 <=> \E k \in 1..Len(notices) : notices[k] = "paid"
    /\ state \in {"paid", "shipped"} => charged = 1
    /\ state # "awaiting"
    /\ state # "draft" => notices # <<>> /\ notices[Len(notices)] = state
    /\ command.executed => charged = 1 /\ command.pricing = "null"
    /\ crashed => tries = 2
=============================================================================
