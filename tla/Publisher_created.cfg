\* Two threads declare one topic on one Publisher, with one schema.
CONSTANTS
    Publishers = {P}
    Callers = {t1, t2}
    Topics = {A}
    Schemas = {s1}
    Opaque = {}
    Profiles = {}
    Bounds = {}
    NoProfile = NoProfile
    NoTopic = NoTopic
    NoPublisher = NoPublisher
    NoSchema = NoSchema
SPECIFICATION Spec
INVARIANT CreatedMeansDeclared
