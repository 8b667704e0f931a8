------------------------ MODULE MCMotorConfiguration ------------------------
(* Instances of MotorConfiguration. *)
EXTENDS MotorConfiguration

AllOrNotYaw == {Motors, Motors \ {1}}
AllReady == {Motors}
Valid == {8, 32, 0}     \* one that is not valid gives 16
Near == {0, 1}
=============================================================================
