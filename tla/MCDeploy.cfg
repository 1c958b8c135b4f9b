\* Any state of the checkout, inside another repository or not, up to three
\* failures or crashes, a remote that publishes two more revisions.
CONSTANTS
    Damages <- MCDamages
    MaxRevision = 3
    MaxFaults = 3
SPECIFICATION DeploySpec
INVARIANTS DeployTypeOK ServesItsRevision
PROPERTIES OnlyLocalFailuresRemove Heals
CHECK_DEADLOCK FALSE
