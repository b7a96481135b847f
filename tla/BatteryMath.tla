---------------------------- MODULE BatteryMath ----------------------------
(***************************************************************************)
(* The pure half of the battery module: millivolts, cells and percent.      *)
(***************************************************************************)
EXTENDS Integers

U16Max == 65535

(* Tap millivolts to pack millivolts; the product is clipped, not wrapped.   *)
PackMvFromTap(tapMv, scale) ==
  IF scale <= 0 THEN 0
  ELSE LET v == (tapMv * scale) \div 1000
       IN  IF v > U16Max THEN U16Max ELSE v

MinValidMv   == 6000
CellDetectMv == 4300

DetectCells(packMv) ==
  IF packMv < MinValidMv THEN 0
  ELSE (packMv + CellDetectMv - 1) \div CellDetectMv

CellEmptyMv == 3300
CellFullMv  == 4200

RemainingPct(packMv, cells) ==
  IF cells = 0 THEN 0
  ELSE LET perCell == packMv \div cells
       IN  CASE perCell <= CellEmptyMv -> 0
             [] perCell >= CellFullMv  -> 100
             [] OTHER -> ((perCell - CellEmptyMv) * 100) \div (CellFullMv - CellEmptyMv)
=============================================================================
