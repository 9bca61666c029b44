-------------------------- MODULE MCProducerChart --------------------------
(***************************************************************************)
(* Model values for ProducerChart: today and two other ranges, two         *)
(* applies, up to three requests in flight and two failed answers.        *)
(***************************************************************************)
EXTENDS ProducerChart

====
