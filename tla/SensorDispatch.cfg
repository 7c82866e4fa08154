\* Registry and dispatch: two subscriptions, one shared kprobe, two CPUs,
\* up to two samples.
CONSTANTS
    s1 = s1
    s2 = s2
    p1 = p1
    c1 = c1
    c2 = c2
    Subs <- MCSubs
    Probes <- MCProbes
    CPUs <- MCCPUs
    MaxSamples = 2
SPECIFICATION Spec
INVARIANT TypeOK
 
PROPERTY RefinesAbstract
\* Once every subscription is closed and the sample bound is used up the
\* sensor only waits for samples.
CHECK_DEADLOCK FALSE
