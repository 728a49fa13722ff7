------------------------------- MODULE MCSweep -------------------------------
EXTENDS Sweep

MCOrder == << <<1, 2>>, <<2, 1>> >>
MCSpecs ==
  [repetitions : {1}, maximum : {2}, seed : {"across"}]
  \cup [repetitions : {2}, maximum : {2}, seed : {"within", "across", "beyond"}]

\* a seed for each side the resampling of mixed samples may fall on
MCResampled(seed, samples) == seed
=============================================================================
