----------------------------- MODULE MCTrading -----------------------------
(***************************************************************************)
(* The two ways Tea trades: the OHLC broker over a net position (Broker)   *)
(* and bounded lots (Lots).  A program uses one or the other, so a         *)
(* behaviour follows one, and the other stays as it begins.                *)
(***************************************************************************)
EXTENDS Broker, Lots

VARIABLE part

ASSUME OneSidePerId

-----------------------------------------------------------------------------
(* Broker: one id per direction.                                           *)

MCEntryNames == {<<"Long", "buy">>, <<"Short", "sell">>}
MCEntryStops == {None, 1, 3}
MCBrackets == {<<1, None>>, <<1, 3>>, <<3, 1>>}
MCTargets == {-1, 0, 2}

(* Still, rising past, falling past, and over the whole range. *)
MCBars == {<<2, 2, 2, 2>>, <<2, 3, 2, 3>>, <<2, 2, 1, 1>>, <<2, 3, 1, 2>>}

-----------------------------------------------------------------------------
(* Lots: bars that trade both ways and gap up or down past 2 and 3.        *)

MCLotBars == {<<2, 4, 1, 3>>, <<1, 2, 1, 2>>, <<4, 5, 3, 4>>}

ASSUME LotsAssumption

-----------------------------------------------------------------------------

TradingInit ==
  /\ BrokerInit /\ (part # "net" => ~processOnClose /\ bar = CHOOSE b \in Bars : TRUE)
  /\ LotsInit /\ (part # "lots" => lotBar = CHOOSE b \in LotBars : TRUE)

TradingNext ==
  \/ part = "net" /\ BrokerNext /\ UNCHANGED lotsVars
  \/ part = "lots" /\ LotsNext /\ UNCHANGED brokerVars

tradingVars == <<brokerVars, lotsVars>>

TradingSpec ==
  /\ part \in {"net", "lots"} /\ TradingInit
  /\ [][TradingNext /\ UNCHANGED part]_<<part, tradingVars>>
=============================================================================
