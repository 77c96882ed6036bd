---------------------------------- MODULE Purse ----------------------------------
(***************************************************************************)
(* A player's money and score: CPlayer::SetMoney and SetScore tell a       *)
(* script function of the change before they make it.  The function may    *)
(* set the value again, which tells it again, and may give the player      *)
(* money, which tells nobody.  It leaves the player connected: a function  *)
(* that kicks him deletes the object SetMoney goes on to read.             *)
(***************************************************************************)
EXTENDS Integers, Sequences, SequencesExt

CONSTANTS
    Amount,  \* the values
    MaxCalls \* bound: calls of SetMoney in progress

VARIABLES
    money,   \* what the server has
    setting, \* the calls of SetMoney in progress, the innermost last
    \* history
    meant,   \* what the last call that was in progress alone was to set
    given    \* somebody has changed the money since that call returned

purseVars == <<money, setting, meant, given>>

PurseInit ==
    /\ money \in Amount
    /\ setting = <<>>
    /\ meant = money /\ given = FALSE

Sets(new) ==
    IF setting = <<>> THEN meant' = new /\ given' = FALSE ELSE UNCHANGED <<meant, given>>

\* Up to the call of onPlayerCashChange or onPlayerScoreChange, with both values
SetMoney(new) ==
    /\ Len(setting) < MaxCalls
    /\ setting' = Append(setting, [oldCash |-> money, money |-> new])
    /\ Sets(new)
    /\ UNCHANGED money

\* There is no such function
SetMoneyUntold(new) ==
    /\ setting = <<>>
    /\ money' = new
    /\ Sets(new)
    /\ UNCHANGED setting

SetIfOld ==
    money' = IF money = Last(setting).oldCash THEN Last(setting).money ELSE money
\* What the function has done to the money is not looked at
Set == money' = Last(setting).money

\* The function has returned, or failed, which is not looked at either
Returns ==
    /\ setting # <<>>
    /\ Set
    /\ setting' = Front(setting)
    /\ UNCHANGED <<meant, given>>

\* GiveMoney, the server
Changes(x) ==
    /\ money' = x
    /\ given' = (given \/ setting = <<>>)
    /\ UNCHANGED <<setting, meant>>

PurseNext ==
    \/ Returns
    \/ \E x \in Amount : SetMoney(x) \/ SetMoneyUntold(x) \/ Changes(x)

PurseSpec == PurseInit /\ [][PurseNext]_purseVars

-------------------------------------------------------------------------------
\* The outermost call wins: when it has returned the player has what it was to
\* set, whatever the functions called on the way, and the calls they made, have
\* set, given and been told.
OutermostWins == setting = <<>> /\ ~given => money = meant

===============================================================================
