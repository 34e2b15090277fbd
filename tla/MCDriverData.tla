----------------------------- MODULE MCDriverData -----------------------------
(* The six register chips with two or three configurations each (the OPT4048 *)
(* with the one its task uses), every packed block, every checksummed answer.*)
EXTENDS DriverData

\* Four rows and four columns of the camera, at the edges and inside.
MCSampled == {32 * r + c : r \in {0, 1, 22, 23}, c \in {0, 1, 30, 31}}

MCSettings ==
    [bmp581 |-> {[osr_t |-> 1, osr_p |-> 6, press_en |-> 1, iir_t |-> 0, iir_p |-> 3, flush |-> 0],
                 [osr_t |-> 7, osr_p |-> 0, press_en |-> 0, iir_t |-> 5, iir_p |-> 0, flush |-> 1]},
     opt4048 |-> {[range |-> 12, time |-> 8, latch |-> 1]},
     as7343 |-> {[again |-> 9, atime |-> 29, astep |-> 599],
                 [again |-> 4, atime |-> 255, astep |-> 65534]},
     bmm350 |-> {[axes |-> 7, odr |-> 4, avg |-> 3, drdy |-> 1], [axes |-> 2, odr |-> 10, avg |-> 1, drdy |-> 0],
                 [axes |-> 0, odr |-> 2, avg |-> 0, drdy |-> 0]},
     bme690 |-> {[osrs_h |-> 1, osrs_t |-> 2, osrs_p |-> 5, filter |-> 0],
                 [osrs_h |-> 5, osrs_t |-> 0, osrs_p |-> 1, filter |-> 7]},
     mlx90640 |-> {[rate |-> 2, resolution |-> 2, chess |-> 1], [rate |-> 5, resolution |-> 1, chess |-> 0]}]
===============================================================================
