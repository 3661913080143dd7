----------------------------- MODULE MCZy12pdn -----------------------------
(* Sources and modes for model checking Zy12pdn. *)
EXTENDS Zy12pdn

Fixed(v, c)    == [supply_type |-> "fixed", low |-> v \div 50, high |-> 0, current |-> c \div 10]
Pps(lo, hi, c) == [supply_type |-> "pps", low |-> lo \div 100, high |-> hi \div 100,
                   current |-> c \div 50]
Variable(lo, hi, c) ==
  [supply_type |-> "variable", low |-> lo \div 50, high |-> hi \div 50, current |-> c \div 10]
Apdo == [supply_type |-> "apdo", low |-> 0, high |-> 0, current |-> 0]

(* A plain source, one with another kind of augmented object in front of   *)
(* its programmable supply, and one above 20V.                             *)
MCAdverts ==
  { <<Fixed(5000, 3000), Fixed(9000, 2000)>>,
    <<Fixed(5000, 3000), Apdo, Pps(3300, 21000, 1250)>>,
    <<Fixed(5000, 3000), Fixed(9000, 1500), Fixed(12000, 1500)>> }
MCModes == {0, 9, 100}

MCFixedAdverts == {<<Fixed(5000, 3000), Fixed(9000, 2000)>>}
MCVariableAdverts == {<<Fixed(5000, 3000), Variable(7000, 12000, 2000)>>}
=============================================================================
