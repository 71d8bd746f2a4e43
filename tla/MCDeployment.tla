---------------------------- MODULE MCDeployment -----------------------------
EXTENDS Deployment, TLC
DroneSymmetry == Permutations(Drones)
=============================================================================
